---- MODULE Spec2Model ----
(***************************************************************************)
(* The real-time session coordinator of src/server.js: the Presence        *)
(* Registry (onlineUsers), the pending-game table (pendingGames), the      *)
(* users collection as far as the socket handlers read and write it, and   *)
(* the Socket.IO handlers registered in io.on('connection').               *)
(*                                                                         *)
(* One action is one run of a handler between two suspension points: a     *)
(* handler with an await is split at the await, and the continuation is an *)
(* action of its own that other connections' handlers may precede.         *)
(* The HTTP routes (login, logout, /api/user) are not modelled.            *)
(* Of src/public/client.js the difficulty dialogue is modelled: the        *)
(* handlers of showDifficultySelect and gameStart and the buttons that     *)
(* read or write currentGameState.mode.                                    *)
(***************************************************************************)
EXTENDS Integers, Sequences, FiniteSets, TLC

\* ------------------------------------------------------------------ bounds
MaxConns == 3          \* connections opened during one run (socket ids 1..MaxConns)
MaxObjectIds == 2      \* calls of new ObjectId() during one run
MaxRenames == 2        \* setUsername handlers suspended on storage at one time
NumAccounts == 2       \* documents of the users collection whose accounts connect
NumOffline == 9        \* further documents of the users collection (never online)
MaxScores == 1         \* insertOne calls on the scores collection during one run
MaxWins == 2           \* multi/won reports processed per account during one run
MaxEdges == 2          \* insertOne calls on the friendships collection during one run
MaxCalls == 1          \* handlers (other than setUsername) suspended at one time

Conns == 1..MaxConns
Accounts == 1..NumAccounts
Offline == {0 - k : k \in 1..NumOffline}
Stored == Accounts \cup Offline
NoSocket == 0          \* no socket id (an unset socketId field)
NoSession == 0         \* a handshake whose session names no principal
\* The principal of a session whose account is no longer in the users collection.
DeletedAccount == NumAccounts + MaxObjectIds + 1

\* ------------------------------------------------------------ identifiers
\* An account id is either a storage ObjectId or, for a guest, a plain string.
\* A string is written [kind |-> "str", pre, n]: the text pre followed by the
\* hex text of ObjectId n.
ObjectId(n) == [kind |-> "oid", pre |-> "", n |-> n]
HexStr(n) == [kind |-> "str", pre |-> "", n |-> n]
GuestStr(n) == [kind |-> "str", pre |-> "guest_", n |-> n]
NoId == [kind |-> "undefined", pre |-> "", n |-> 0]

\* x.toString(): the hex text of an ObjectId, a string itself.
ToStr(x) == IF x.kind = "oid" THEN HexStr(x.n) ELSE x

null == "null"           \* JavaScript null (no difficulty string is "null")
\* difficulty is not validated: two values of the enumeration and the empty
\* string, which is outside it (not null, but falsy).
Difficulties == {"easy", "hard", ""}
Truthy(d) == d # null /\ d # ""

Names == {"Zed"}
\* "Guest-" and the last four characters of the guest id's text.
GuestName(n) == "Guest-" \o ToString(n)

\* ------------------------------------------------------------------ state
VARIABLES
    sock,          \* per socket id: [pc, open, session], the position of its handlers
    db,            \* users collection: account -> [customUsername, socketId]
    onlineUsers,   \* the registry, in insertion order of its keys
    pendingGames,  \* the pending table, in insertion order of its keys
    nextOid,       \* the next value new ObjectId() returns
    renames,       \* setUsername handlers suspended on updateOne
    emitted,       \* the notifications the last handler run emitted, in order
    took,          \* history: the handler that ran last and the case of its message
    registered,    \* history: per socket id, the identity last registered for it
    ownChoice,     \* history: per game, the last difficulty each slot's own account sent
    scn,           \* history: progress of the invite/accept/easy/hard scenario
    scores,        \* scores collection, in insertion order
    wins,          \* users collection: the wins field of each stored document
    friendships,   \* friendships collection, in insertion order
    calls,         \* handlers suspended on storage (all but setUsername's)
    wonReports,    \* history: per account, the multi/won reports processed
    written,       \* history: the ids storage writes were issued for
    client         \* one browser client: currentGameState, the modal, its last handler

vars == <<sock, db, onlineUsers, pendingGames, nextOid, renames, emitted, took,
          registered, ownChoice, scn, scores, wins, friendships, calls, wonReports,
          written, client>>

\* What the lobby's handlers leave alone: the collections other than users' names
\* and markers, and the handlers suspended on them.
store == <<scores, wins, friendships, calls, wonReports>>

\* onlineUsers[socket.id] when the key is absent.
NoUser == [socketId |-> NoSocket, _id |-> NoId, customUsername |-> "", isGuest |-> FALSE]
NoSlot == [id |-> NoId, socketId |-> NoSocket, name |-> "", difficulty |-> null]
NoGame == [gameId |-> NoId, player1 |-> NoSlot, player2 |-> NoSlot]

\* --------------------------------------------------------- keyed mappings
\* A JavaScript object with string keys: (key, value) entries in insertion order.
\* First(hits) is the first of the positions hits, 0 if there is none.
First(hits) == IF hits = {} THEN 0 ELSE CHOOSE i \in hits : \A j \in hits : i <= j

RemoveAt(seq, i) == SubSeq(seq, 1, i - 1) \o SubSeq(seq, i + 1, Len(seq))

\* Mutant of Lookup: a socket id without a record is given the first record.
Lookup_anyone(users, c) ==
    LET i == First({k \in 1..Len(users) : users[k].socketId = c})
    IN IF Len(users) = 0 THEN NoUser ELSE IF i = 0 THEN users[1] ELSE users[i]

\* onlineUsers[socketId]
Lookup(users, c) ==
    LET i == First({k \in 1..Len(users) : users[k].socketId = c})
    IN IF i = 0 THEN NoUser ELSE users[i]

\* Mutant of Register: the record is added without replacing the one of the key.
Register_append(users, rec) == Append(users, rec)

\* onlineUsers[socket.id] = rec: an existing key keeps its place.
Register(users, rec) ==
    LET i == First({k \in 1..Len(users) : users[k].socketId = rec.socketId})
    IN IF i = 0 THEN Append(users, rec) ELSE [users EXCEPT ![i] = rec]

\* Mutant of Unregister: the record added last is removed.
Unregister_last(users, c) == SubSeq(users, 1, Len(users) - 1)

\* delete onlineUsers[socket.id]
Unregister(users, c) ==
    LET i == First({k \in 1..Len(users) : users[k].socketId = c})
    IN IF i = 0 THEN users ELSE RemoveAt(users, i)

\* Object.values(onlineUsers).find(u => u._id.toString() === id)
FindUserById(users, id) ==
    LET i == First({k \in 1..Len(users) : ToStr(users[k]._id) = id})
    IN IF i = 0 THEN NoUser ELSE users[i]

\* pendingGames[gameId]
GameOf(games, gameId) ==
    LET i == First({k \in 1..Len(games) : games[k].gameId = gameId})
    IN IF i = 0 THEN NoGame ELSE games[i]

GameIds(games) == {games[i].gameId : i \in 1..Len(games)}

\* pendingGames[gameId] = game
PutGame(games, game) ==
    LET i == First({k \in 1..Len(games) : games[k].gameId = game.gameId})
    IN IF i = 0 THEN Append(games, game) ELSE [games EXCEPT ![i] = game]

\* delete pendingGames[gameId]
DeleteGame(games, gameId) ==
    LET i == First({k \in 1..Len(games) : games[k].gameId = gameId})
    IN IF i = 0 THEN games ELSE RemoveAt(games, i)

\* io.to(socketId).emit(ev, data) and socket.emit(ev, data)
Emit(to, ev, data) == [to |-> to, ev |-> ev, data |-> data]

\* ---------------------------------------------------------------- history
\* The scenario of two accounts: X (account 1) invites Y (account 2), Y accepts,
\* X submits "easy", Y submits "hard", as four handler runs in a row.
AccountX == ObjectId(1)
AccountY == ObjectId(2)
NoInbox == [c \in Conns |-> <<>>]
ScnIdle == [step |-> 0, X |-> NoSocket, Y |-> NoSocket, g |-> NoId, inbox |-> NoInbox]

\* What each connection is sent by the notifications out, appended to inbox.
Deliver(inbox, out) ==
    [c \in Conns |-> inbox[c] \o SelectSeq(out, LAMBDA e : e.to = c)]

\* The scenario after the handler run e = [name, conn, a, b] that started with
\* registry users and emitted out.
Observe(e, users, out) ==
    LET actor == Lookup(users, e.conn)
        starts == /\ e.name = "sendInvite"
                  /\ actor._id = AccountX
                  /\ e.a = ToStr(AccountY)
                  /\ \E u \in 1..Len(users) :
                        users[u]._id = AccountY /\ users[u].socketId # e.conn
    IN  IF /\ scn.step = 1
           /\ e.name = "acceptInvite"
           /\ e.conn # scn.X
           /\ actor._id = AccountY
           /\ e.a = ToStr(AccountX)
           /\ Len(out) > 0
        THEN [scn EXCEPT !.step = 2, !.Y = e.conn, !.g = out[1].data.gameId,
                         !.inbox = Deliver(scn.inbox, out)]
        ELSE IF /\ scn.step = 2
                /\ e.name = "difficultySelected"
                /\ e.conn = scn.X /\ e.a = scn.g /\ e.b = "easy"
        THEN [scn EXCEPT !.step = 3, !.inbox = Deliver(scn.inbox, out)]
        ELSE IF /\ scn.step = 3
                /\ e.name = "difficultySelected"
                /\ e.conn = scn.Y /\ e.a = scn.g /\ e.b = "hard"
        THEN [scn EXCEPT !.step = 4, !.inbox = Deliver(scn.inbox, out)]
        ELSE IF starts
        THEN [ScnIdle EXCEPT !.step = 1, !.X = e.conn, !.inbox = Deliver(NoInbox, out)]
        ELSE ScnIdle

\* The case of a client message, read off the state it arrives in: whether the
\* registry has a record under the sending socket id, a record with the account
\* id named, and the table a game under the gameId named.
Known(users, c) == \E i \in 1..Len(users) : users[i].socketId = c
OnlineId(users, id) == \E i \in 1..Len(users) : ToStr(users[i]._id) = id
Pending(games, gameId) == \E i \in 1..Len(games) : games[i].gameId = gameId

InviteCase(c, toUserId) ==
    IF ~Known(onlineUsers, c) THEN "sendInvite.noSender"
    ELSE IF ~OnlineId(onlineUsers, toUserId) THEN "sendInvite.noRecipient"
    ELSE "sendInvite.both"

AcceptCase(c, senderId) ==
    IF ~Known(onlineUsers, c) THEN "acceptInvite.noAccepter"
    ELSE IF ~OnlineId(onlineUsers, senderId) THEN "acceptInvite.noSender"
    ELSE "acceptInvite.both"

DifficultyCase(c, gameId) ==
    IF ~Pending(pendingGames, gameId) THEN "difficultySelected.noGame"
    ELSE IF ~Known(onlineUsers, c) THEN "difficultySelected.noPlayer"
    ELSE "difficultySelected.both"

NoOwn == [p1 |-> null, p2 |-> null]

Event(name, c, a, b) == [name |-> name, conn |-> c, a |-> a, b |-> b]

\* ownChoice keeps the games of the pending table (and the game the last run ended).
Forget(own, games) == [g \in (DOMAIN own) \cap GameIds(games) |-> own[g]]

\* ----------------------------------------------------------------- client
\* currentGameState as client.js declares it (mode 'single', gameId null,
\* difficulty 'medium'), the difficulty modal hidden, no game loop running.
\* asked, sent and began are history: the gameId of a showDifficultySelect not
\* yet answered by a click, the messages the last handler sent to the server, and
\* the round it began.
ClientInit ==
    [mode |-> "single", gameId |-> NoId, difficulty |-> "medium", modal |-> FALSE,
     running |-> FALSE, asked |-> NoId, sent |-> <<>>, began |-> ""]

\* -------------------------------------------------------------------- Init
\* The server after main(): empty registries, no handler running.
Fresh ==
    /\ sock = [c \in Conns |-> [pc |-> "new", open |-> FALSE, session |-> NoSession]]
    /\ db = [a \in Accounts |->
                [customUsername |-> IF a = 1 THEN "Ann" ELSE "Bob", socketId |-> NoSocket]]
    /\ onlineUsers = <<>>
    /\ pendingGames = <<>>
    /\ nextOid = NumAccounts + 1
    /\ renames = {}
    /\ emitted = <<>>
    /\ took = "start"
    /\ registered = [c \in Conns |-> NoId]
    /\ ownChoice = [g \in {} |-> NoOwn]
    /\ scn = ScnIdle
    /\ friendships = <<>>
    /\ calls = {}
    /\ wonReports = [a \in Accounts |-> 0]
    /\ written = {}
    /\ client = ClientInit

NoWins == [a \in Stored |-> 0]

Init ==
    /\ Fresh
    /\ scores = <<>>
    /\ wins = NoWins

\* A client can send events on c: its handlers are attached and it is connected.
Listening(c) == sock[c].pc = "ready" /\ sock[c].open

\* ------------------------------------------------------------- connection
\* io.on('connection'): getSocketUser(socket) up to its findOne.  Socket ids are
\* opaque and never reused; they are handed out in order.
Connect(c, s) ==
    /\ sock[c].pc = "new"
    /\ \A b \in Conns : b < c => sock[b].pc # "new"
    /\ sock' = [sock EXCEPT ![c] =
                  [pc |-> IF s = NoSession THEN "ready" ELSE "lookup",
                   open |-> TRUE, session |-> s]]
    /\ emitted' = <<>>
    /\ took' = "connection"
    /\ UNCHANGED client
    /\ scn' = Observe(Event("connection", c, NoId, ""), onlineUsers, <<>>)
    /\ ownChoice' = Forget(ownChoice, pendingGames)
    /\ UNCHANGED <<db, onlineUsers, pendingGames, nextOid, renames, registered>>
    /\ UNCHANGED store
    /\ UNCHANGED written

\* { ...user, socketId: socket.id } of the document findOne returned
UserRecord(a, c) ==
    [socketId |-> c, _id |-> ObjectId(a), customUsername |-> db[a].customUsername,
     isGuest |-> FALSE]

\* findOne has answered: register the record, then await the marker's updateOne.
LookupDone(c) ==
    /\ sock[c].pc = "lookup"
    /\ sock[c].session \in Accounts
    /\ onlineUsers' = Register(onlineUsers, UserRecord(sock[c].session, c))
    /\ registered' = [registered EXCEPT ![c] = ObjectId(sock[c].session)]
    /\ sock' = [sock EXCEPT ![c].pc = "marker"]
    /\ emitted' = <<>>
    /\ took' = "connection.registered"
    /\ UNCHANGED client
    /\ scn' = Observe(Event("connection", c, NoId, ""), onlineUsers, <<>>)
    /\ ownChoice' = Forget(ownChoice, pendingGames)
    /\ UNCHANGED <<db, pendingGames, nextOid, renames>>
    /\ UNCHANGED store
    /\ UNCHANGED written

\* Mutant of WithUser: the record is stored without the test of user.
WithUser_unchecked(users, user, c) == Register(users, [user EXCEPT !.socketId = c])

\* if (user) { onlineUsers[socket.id] = { ...user, socketId: socket.id }; ... }
WithUser(users, user, c) ==
    IF user = NoUser THEN users ELSE Register(users, [user EXCEPT !.socketId = c])

\* getSocketUser returns null: findOne found no document (the account of the
\* session is gone), or it threw and the catch logged the error.  The
\* connection handler skips its if (user) block and attaches the handlers.
LookupFailed(c) ==
    /\ sock[c].pc = "lookup"
    /\ onlineUsers' = WithUser(onlineUsers, NoUser, c)
    /\ sock' = [sock EXCEPT ![c].pc = "ready"]
    /\ emitted' = <<>>
    /\ took' = "connection.noUser"
    /\ UNCHANGED client
    /\ scn' = Observe(Event("connection", c, NoId, ""), onlineUsers, <<>>)
    /\ ownChoice' = Forget(ownChoice, pendingGames)
    /\ UNCHANGED <<db, pendingGames, nextOid, renames, registered>>
    /\ UNCHANGED store
    /\ UNCHANGED written

\* updateOne({_id}, {$set: {socketId}}) has answered: the handlers are attached.
MarkerDone(c) ==
    /\ sock[c].pc = "marker"
    /\ db' = [db EXCEPT ![sock[c].session].socketId = c]
    /\ sock' = [sock EXCEPT ![c].pc = "ready"]
    /\ emitted' = <<>>
    /\ took' = "connection.attached"
    /\ written' = written \cup {ObjectId(sock[c].session)}
    /\ UNCHANGED client
    /\ scn' = Observe(Event("connection", c, NoId, ""), onlineUsers, <<>>)
    /\ ownChoice' = Forget(ownChoice, pendingGames)
    /\ UNCHANGED <<onlineUsers, pendingGames, nextOid, renames, registered>>
    /\ UNCHANGED store

\* The socket closes.  socket.on('disconnect') runs only if it is attached by
\* then; for a non-guest record it awaits the $unset before the delete.
Disconnect(c) ==
    /\ sock[c].open
    /\ LET user == Lookup(onlineUsers, c)
           waits == user # NoUser /\ ~user.isGuest
       IN  IF sock[c].pc # "ready"
           THEN /\ sock' = [sock EXCEPT ![c].open = FALSE]
                /\ UNCHANGED <<onlineUsers, registered>>
           ELSE IF waits
           THEN /\ sock' = [sock EXCEPT ![c].open = FALSE, ![c].pc = "unset"]
                /\ UNCHANGED <<onlineUsers, registered>>
           ELSE /\ sock' = [sock EXCEPT ![c].open = FALSE, ![c].pc = "done"]
                /\ onlineUsers' = Unregister(onlineUsers, c)
                /\ registered' = [registered EXCEPT ![c] = NoId]
    /\ emitted' = <<>>
    /\ took' = IF sock[c].pc # "ready" THEN "disconnect.unheard" ELSE "disconnect"
    /\ UNCHANGED client
    /\ scn' = Observe(Event("disconnect", c, NoId, ""), onlineUsers, <<>>)
    /\ ownChoice' = Forget(ownChoice, pendingGames)
    /\ UNCHANGED <<db, pendingGames, nextOid, renames>>
    /\ UNCHANGED store
    /\ UNCHANGED written

\* updateOne({_id: user._id}, {$unset: {socketId}}) has answered: delete the record.
UnsetDone(c) ==
    /\ sock[c].pc = "unset"
    /\ LET user == Lookup(onlineUsers, c)
       IN /\ db' = [db EXCEPT ![user._id.n].socketId = NoSocket]
          /\ written' = written \cup {user._id}
    /\ onlineUsers' = Unregister(onlineUsers, c)
    /\ registered' = [registered EXCEPT ![c] = NoId]
    /\ sock' = [sock EXCEPT ![c].pc = "done"]
    /\ emitted' = <<>>
    /\ took' = "disconnect.deleted"
    /\ UNCHANGED client
    /\ scn' = Observe(Event("disconnect", c, NoId, ""), onlineUsers, <<>>)
    /\ ownChoice' = Forget(ownChoice, pendingGames)
    /\ UNCHANGED <<pendingGames, nextOid, renames>>
    /\ UNCHANGED store

\* ------------------------------------------------------------- guestLogin
GuestUser(n) ==
    [_id |-> GuestStr(n), customUsername |-> GuestName(n), isGuest |-> TRUE]

\* Mutant of GuestRecord: the record is not marked as a guest's.
GuestRecord_asAccount(n, c) ==
    [socketId |-> c, _id |-> GuestStr(n), customUsername |-> GuestName(n),
     isGuest |-> FALSE]

\* Mutant of GuestRecord: every guest is given the first guest's id.
GuestRecord_sameId(n, c) ==
    [socketId |-> c, _id |-> GuestStr(NumAccounts + 1), customUsername |-> GuestName(n),
     isGuest |-> TRUE]

GuestRecord(n, c) ==
    [socketId |-> c, _id |-> GuestStr(n), customUsername |-> GuestName(n),
     isGuest |-> TRUE]

GuestLogin(c) ==
    /\ Listening(c)
    /\ nextOid <= NumAccounts + MaxObjectIds
    /\ onlineUsers' = Register(onlineUsers, GuestRecord(nextOid, c))
    /\ registered' = [registered EXCEPT ![c] = GuestStr(nextOid)]
    /\ nextOid' = nextOid + 1
    /\ emitted' = <<Emit(c, "loginSuccess", GuestUser(nextOid))>>
    /\ took' = "guestLogin"
    /\ UNCHANGED client
    /\ scn' = Observe(Event("guestLogin", c, NoId, ""), onlineUsers, emitted')
    /\ ownChoice' = Forget(ownChoice, pendingGames)
    /\ UNCHANGED <<sock, db, pendingGames, renames>>
    /\ UNCHANGED store
    /\ UNCHANGED written

\* -------------------------------------------------------- suspended runs
\* The number that tells a newly suspended run of a handler from the ones
\* already suspended.
FreeSlot(runs, max) == CHOOSE k \in 1..max : \A r \in runs : r.slot # k

\* ------------------------------------------------------------ setUsername
\* Up to the await of updateOne: user is the record object of the connection.
SetUsername(c, username) ==
    /\ Listening(c)
    /\ LET user == Lookup(onlineUsers, c)
       IN  IF user # NoUser /\ ~user.isGuest
           THEN /\ Cardinality(renames) < MaxRenames
                /\ renames' = renames \cup
                      {[conn |-> c, account |-> user._id.n, username |-> username,
                        stored |-> FALSE, slot |-> FreeSlot(renames, MaxRenames)]}
           ELSE UNCHANGED renames
    /\ emitted' = <<>>
    /\ took' = "setUsername"
    /\ UNCHANGED client
    /\ scn' = Observe(Event("setUsername", c, NoId, ""), onlineUsers, <<>>)
    /\ ownChoice' = Forget(ownChoice, pendingGames)
    /\ UNCHANGED <<sock, db, onlineUsers, pendingGames, nextOid, registered>>
    /\ UNCHANGED store
    /\ UNCHANGED written

\* user.customUsername = username on the object the handler read: it is still
\* the registry's record of r.conn unless that was deleted or replaced (by a guest).
Renamed(users, r) ==
    LET i == First({k \in 1..Len(users) : users[k].socketId = r.conn /\ ~users[k].isGuest})
    IN IF i = 0 THEN users ELSE [users EXCEPT ![i].customUsername = r.username]

\* The handlers suspended for connection r.conn hold the same record object.
RenamedCalls(cs, r) ==
    {IF call.conn = r.conn /\ call.user # NoUser /\ ~call.user.isGuest
     THEN [call EXCEPT !.user.customUsername = r.username] ELSE call : call \in cs}

\* Storage applies the updateOne of a suspended setUsername; its answer is still
\* on the way.
RenameStored(r) ==
    /\ r \in renames
    /\ ~r.stored
    /\ renames' = (renames \ {r}) \cup {[r EXCEPT !.stored = TRUE]}
    /\ db' = [db EXCEPT ![r.account].customUsername = r.username]
    /\ emitted' = <<>>
    /\ took' = "setUsername.stored"
    /\ written' = written \cup {ObjectId(r.account)}
    /\ UNCHANGED client
    /\ scn' = Observe(Event("setUsername", r.conn, NoId, ""), onlineUsers, <<>>)
    /\ ownChoice' = Forget(ownChoice, pendingGames)
    /\ UNCHANGED <<sock, onlineUsers, pendingGames, nextOid, registered>>
    /\ UNCHANGED store

\* The answer of updateOne arrives (storage applies the update now, unless it
\* did before) and the handler runs to its end.
RenameDone(r) ==
    /\ r \in renames
    /\ renames' = renames \ {r}
    /\ db' = IF r.stored THEN db ELSE [db EXCEPT ![r.account].customUsername = r.username]
    /\ onlineUsers' = Renamed(onlineUsers, r)
    /\ calls' = RenamedCalls(calls, r)
    /\ emitted' = <<Emit(r.conn, "loginSuccess",
                     [socketId |-> r.conn, _id |-> ObjectId(r.account),
                      customUsername |-> r.username, isGuest |-> FALSE])>>
    /\ took' = "setUsername.renamed"
    /\ written' = written \cup {ObjectId(r.account)}
    /\ UNCHANGED client
    /\ scn' = Observe(Event("setUsername", r.conn, NoId, ""), onlineUsers, emitted')
    /\ ownChoice' = Forget(ownChoice, pendingGames)
    /\ UNCHANGED <<sock, pendingGames, nextOid, registered>>
    /\ UNCHANGED <<scores, wins, friendships, wonReports>>

\* ------------------------------------------------------------- sendInvite
\* Mutant of InviteGuard: the sender's record is not checked.
InviteGuard_anySender(sender, recipientSocket) == recipientSocket # NoUser

\* if (sender && recipientSocket)
InviteGuard(sender, recipientSocket) == sender # NoUser /\ recipientSocket # NoUser

\* Mutant of InviteReceived: the invitation carries the recipient's name.
InviteReceived_recipientName(sender, recipientSocket) ==
    Emit(recipientSocket.socketId, "inviteReceived",
         [fromId |-> ToStr(sender._id), fromName |-> recipientSocket.customUsername])

\* io.to(recipientSocket.socketId).emit('inviteReceived', {fromId, fromName})
InviteReceived(sender, recipientSocket) ==
    Emit(recipientSocket.socketId, "inviteReceived",
         [fromId |-> ToStr(sender._id), fromName |-> sender.customUsername])

SendInvite(c, toUserId) ==
    /\ Listening(c)
    /\ LET sender == Lookup(onlineUsers, c)
           recipientSocket == FindUserById(onlineUsers, toUserId)
       IN  emitted' = IF InviteGuard(sender, recipientSocket)
                      THEN <<InviteReceived(sender, recipientSocket)>>
                      ELSE <<>>
    /\ took' = InviteCase(c, toUserId)
    /\ UNCHANGED client
    /\ scn' = Observe(Event("sendInvite", c, toUserId, ""), onlineUsers, emitted')
    /\ ownChoice' = Forget(ownChoice, pendingGames)
    /\ UNCHANGED <<sock, db, onlineUsers, pendingGames, nextOid, renames, registered>>
    /\ UNCHANGED store
    /\ UNCHANGED written

\* ----------------------------------------------------------- acceptInvite
\* new ObjectId().toString()
NewGameId(n) == HexStr(n)

\* Mutant of NewGame: the two slots filled the other way round.
NewGame_swapped(gameId, senderSocket, accepter) ==
    [gameId |-> gameId,
     player1 |-> [id |-> accepter._id, socketId |-> accepter.socketId,
                  name |-> accepter.customUsername, difficulty |-> null],
     player2 |-> [id |-> senderSocket._id, socketId |-> senderSocket.socketId,
                  name |-> senderSocket.customUsername, difficulty |-> null]]

\* { player1: {id, socketId, name, difficulty: null}, player2: {...} }
NewGame(gameId, senderSocket, accepter) ==
    [gameId |-> gameId,
     player1 |-> [id |-> senderSocket._id, socketId |-> senderSocket.socketId,
                  name |-> senderSocket.customUsername, difficulty |-> null],
     player2 |-> [id |-> accepter._id, socketId |-> accepter.socketId,
                  name |-> accepter.customUsername, difficulty |-> null]]

ShowDifficultySelect(gameId, senderSocket, accepter) ==
    <<Emit(senderSocket.socketId, "showDifficultySelect", [gameId |-> gameId]),
      Emit(accepter.socketId, "showDifficultySelect", [gameId |-> gameId])>>

AcceptInvite(c, senderId) ==
    /\ Listening(c)
    /\ LET accepter == Lookup(onlineUsers, c)
           senderSocket == FindUserById(onlineUsers, senderId)
           gameId == NewGameId(nextOid)
       IN  IF accepter = NoUser \/ senderSocket = NoUser
           THEN /\ emitted' = <<>>
                /\ ownChoice' = Forget(ownChoice, pendingGames)
                /\ UNCHANGED <<pendingGames, nextOid>>
           ELSE /\ nextOid <= NumAccounts + MaxObjectIds
                /\ nextOid' = nextOid + 1
                /\ pendingGames' =
                      PutGame(pendingGames, NewGame(gameId, senderSocket, accepter))
                /\ emitted' = ShowDifficultySelect(gameId, senderSocket, accepter)
                /\ ownChoice' =
                      [g \in GameIds(pendingGames') |->
                          IF g \in DOMAIN ownChoice /\ g # gameId
                          THEN ownChoice[g] ELSE NoOwn]
    /\ took' = AcceptCase(c, senderId)
    /\ UNCHANGED client
    /\ scn' = Observe(Event("acceptInvite", c, senderId, ""), onlineUsers, emitted')
    /\ UNCHANGED <<sock, db, onlineUsers, renames, registered>>
    /\ UNCHANGED store
    /\ UNCHANGED written

\* ----------------------------------------------------- difficultySelected
\* Mutant of DifficultyGuard: the chooser's record is not checked.
DifficultyGuard_anyPlayer(game, player) == game # NoGame

\* if (!game || !player) return;
DifficultyGuard(game, player) == game # NoGame /\ player # NoUser

\* Mutant of IsPlayer1: the chooser is recognised by its connection.
IsPlayer1_bySocket(game, player) == game.player1.socketId = player.socketId

\* game.player1.id.toString() === player._id.toString()
IsPlayer1(game, player) == ToStr(game.player1.id) = ToStr(player._id)

\* Mutant of Choose: the slots are written back from a copy taken when the game
\* was created, so the other slot's choice is lost.
Choose_fromCopy(game, player, difficulty) ==
    IF IsPlayer1(game, player)
    THEN [game EXCEPT !.player1.difficulty = difficulty, !.player2.difficulty = null]
    ELSE [game EXCEPT !.player2.difficulty = difficulty, !.player1.difficulty = null]

\* if (isPlayer1) game.player1.difficulty = difficulty;
\* else game.player2.difficulty = difficulty;
Choose(game, player, difficulty) ==
    IF IsPlayer1(game, player)
    THEN [game EXCEPT !.player1.difficulty = difficulty]
    ELSE [game EXCEPT !.player2.difficulty = difficulty]

\* Mutant of UpdateDifficultyChoices: both payloads are player1's view.
UpdateDifficultyChoices_sameView(game) ==
    <<Emit(game.player1.socketId, "updateDifficultyChoices",
           [myChoice |-> game.player1.difficulty,
            opponentChoice |-> game.player2.difficulty,
            opponentName |-> game.player2.name]),
      Emit(game.player2.socketId, "updateDifficultyChoices",
           [myChoice |-> game.player1.difficulty,
            opponentChoice |-> game.player2.difficulty,
            opponentName |-> game.player1.name])>>

\* io.to(player1.socketId).emit('updateDifficultyChoices', ...) and to player2
UpdateDifficultyChoices(game) ==
    <<Emit(game.player1.socketId, "updateDifficultyChoices",
           [myChoice |-> game.player1.difficulty,
            opponentChoice |-> game.player2.difficulty,
            opponentName |-> game.player2.name]),
      Emit(game.player2.socketId, "updateDifficultyChoices",
           [myChoice |-> game.player2.difficulty,
            opponentChoice |-> game.player1.difficulty,
            opponentName |-> game.player1.name])>>

\* Mutant of BothChosen: one choice is enough to start.
BothChosen_either(game) ==
    Truthy(game.player1.difficulty) \/ Truthy(game.player2.difficulty)

\* if (player1.difficulty && player2.difficulty)
BothChosen(game) == Truthy(game.player1.difficulty) /\ Truthy(game.player2.difficulty)

GameStart(game) ==
    <<Emit(game.player1.socketId, "gameStart",
           [gameId |-> game.gameId, opponentName |-> game.player2.name,
            difficulty |-> game.player1.difficulty]),
      Emit(game.player2.socketId, "gameStart",
           [gameId |-> game.gameId, opponentName |-> game.player1.name,
            difficulty |-> game.player2.difficulty])>>

\* The last difficulty each slot's own account has sent for the game.
OwnAfter(own, game, player, difficulty) ==
    [p1 |-> IF ToStr(player._id) = ToStr(game.player1.id) THEN difficulty ELSE own.p1,
     p2 |-> IF ToStr(player._id) = ToStr(game.player2.id) THEN difficulty ELSE own.p2]

DifficultySelected(c, gameId, difficulty) ==
    /\ Listening(c)
    /\ LET game == GameOf(pendingGames, gameId)
           player == Lookup(onlineUsers, c)
           after == Choose(game, player, difficulty)
       IN  IF ~DifficultyGuard(game, player)
           THEN /\ emitted' = <<>>
                /\ ownChoice' = Forget(ownChoice, pendingGames)
                /\ UNCHANGED pendingGames
           ELSE /\ emitted' = UpdateDifficultyChoices(after) \o
                        (IF BothChosen(after) THEN GameStart(after) ELSE <<>>)
                /\ pendingGames' =
                      IF BothChosen(after)
                      THEN DeleteGame(pendingGames, gameId)
                      ELSE PutGame(pendingGames, after)
                /\ ownChoice' =
                      [g \in GameIds(pendingGames) |->
                          IF g = gameId
                          THEN OwnAfter(ownChoice[g], game, player, difficulty)
                          ELSE ownChoice[g]]
    /\ took' = DifficultyCase(c, gameId)
    /\ UNCHANGED client
    /\ scn' = Observe(Event("difficultySelected", c, gameId, difficulty),
                      onlineUsers, emitted')
    /\ UNCHANGED <<sock, db, onlineUsers, nextOid, renames, registered>>
    /\ UNCHANGED store
    /\ UNCHANGED written

\* ------------------------------------------------------------ scoreUpdate
\* id.equals(other) of an ObjectId: another ObjectId of the same value, or the
\* hex text of it; no other string.
Equals(id, other) ==
    IF other.kind = "oid" THEN other.n = id.n ELSE other.pre = "" /\ other.n = id.n

\* Only an ObjectId has equals: g.player1.id.equals of a guest's id (a string)
\* is a TypeError.
HasEquals(id) == id.kind = "oid"

Threw == 0 - 1

\* Object.values(pendingGames).find(g => g.player1.id.equals(user._id) ||
\* g.player2.id.equals(user._id)) from position i on: the position found, 0 for
\* undefined, Threw when the scan reaches a slot whose id has no equals.
RECURSIVE ScanGames(_, _, _)
ScanGames(games, id, i) ==
    IF i > Len(games) THEN 0
    ELSE IF ~HasEquals(games[i].player1.id) THEN Threw
    ELSE IF Equals(games[i].player1.id, id) THEN i
    ELSE IF ~HasEquals(games[i].player2.id) THEN Threw
    ELSE IF Equals(games[i].player2.id, id) THEN i
    ELSE ScanGames(games, id, i + 1)

\* game.player1.id.equals(user._id) ? game.player2 : game.player1
Opponent(game, user) ==
    IF Equals(game.player1.id, user._id) THEN game.player2 ELSE game.player1

ScoreInputs == {1, 2}

ScoreCase(c) == IF ~Known(onlineUsers, c) THEN "scoreUpdate.noUser" ELSE "scoreUpdate"

\* socket.on('scoreUpdate'): the game is looked for in the pending table.  A
\* TypeError ends the run of the handler; nothing has been emitted by then.
ScoreUpdate(c, score) ==
    /\ Listening(c)
    /\ LET user == Lookup(onlineUsers, c)
           i == IF user = NoUser THEN 0 ELSE ScanGames(pendingGames, user._id, 1)
       IN  emitted' = IF i > 0
                      THEN <<Emit(Opponent(pendingGames[i], user).socketId,
                                  "opponentScoreUpdate", score)>>
                      ELSE <<>>
    /\ took' = ScoreCase(c)
    /\ UNCHANGED client
    /\ scn' = Observe(Event("scoreUpdate", c, NoId, ""), onlineUsers, emitted')
    /\ ownChoice' = Forget(ownChoice, pendingGames)
    /\ UNCHANGED <<sock, db, onlineUsers, pendingGames, nextOid, renames, registered>>
    /\ UNCHANGED store
    /\ UNCHANGED written

\* ------------------------------------------------------ suspended handlers
\* A document of the users collection as findOne returns it (the fields read).
NoDoc == [_id |-> NoId, customUsername |-> "", socketId |-> NoSocket]

\* A handler suspended on storage: the socket it runs for, the registry record
\* it read, the ObjectId it asked for, the document and the list it got so far.
\* Two runs of a handler are two runs even if they hold the same data.
Call(handler, c, user, target, recipient, list) ==
    [handler |-> handler, conn |-> c, user |-> user, target |-> target,
     recipient |-> recipient, list |-> list, slot |-> FreeSlot(calls, MaxCalls)]

\* -------------------------------------------------------------- addFriend
\* The uppercase spelling of the hex text of ObjectId n.
UpperStr(n) == [kind |-> "STR", pre |-> "", n |-> n]

\* A string new ObjectId(s) accepts: 24 hex digits, of either case.
IsHex(s) == s.kind \in {"str", "STR"} /\ s.pre = ""

\* new ObjectId(s) of such a string.
ParseObjectId(s) == ObjectId(s.n)

\* usersCollection.findOne({ _id: id })
FindOne(id) ==
    IF id.n \in Accounts
    THEN [_id |-> id, customUsername |-> db[id.n].customUsername,
          socketId |-> db[id.n].socketId]
    ELSE NoDoc

\* { _id, customUsername } of a friend
Summary(u) == [_id |-> u._id, customUsername |-> u.customUsername]

\* { requesterId: requester._id, recipientId: recipient._id, status: 'accepted' }
FriendEdge(requester, recipient) ==
    [requesterId |-> requester._id, recipientId |-> recipient._id, status |-> "accepted"]

\* The case of an addFriend message, by what it names: the sender's record, and
\* the account the target id denotes.
AddFriendCase(c, friendId) ==
    IF ~Known(onlineUsers, c) THEN "addFriend.noUser"
    ELSE IF Lookup(onlineUsers, c).isGuest THEN "addFriend.guest"
    ELSE IF ~IsHex(friendId) THEN "addFriend.malformed"
    ELSE IF ParseObjectId(friendId) = Lookup(onlineUsers, c)._id THEN "addFriend.self"
    ELSE IF ParseObjectId(friendId).n \notin Accounts THEN "addFriend.noAccount"
    ELSE "addFriend"

\* socket.on('addFriend') up to the await of findOne; new ObjectId(friendId)
\* throws on a malformed id, which the handler's catch swallows.
AddFriend(c, friendId) ==
    /\ Listening(c)
    /\ LET requester == Lookup(onlineUsers, c)
       IN  IF \/ requester = NoUser
              \/ requester.isGuest
              \/ ToStr(requester._id) = friendId
              \/ ~IsHex(friendId)
           THEN UNCHANGED calls
           ELSE /\ Cardinality(calls) < MaxCalls
                /\ Len(friendships) < MaxEdges
                /\ calls' = calls \cup
                      {Call("addFriend", c, requester, ParseObjectId(friendId), NoDoc, <<>>)}
    /\ emitted' = <<>>
    /\ took' = AddFriendCase(c, friendId)
    /\ UNCHANGED client
    /\ scn' = Observe(Event("addFriend", c, friendId, ""), onlineUsers, <<>>)
    /\ ownChoice' = Forget(ownChoice, pendingGames)
    /\ UNCHANGED <<sock, db, onlineUsers, pendingGames, nextOid, renames, registered,
                   scores, wins, friendships, wonReports, written>>

\* findOne has answered: without a document the handler returns, with one it
\* awaits insertOne.
FriendFound(call) ==
    /\ call \in calls
    /\ call.handler = "addFriend"
    /\ call.recipient = NoDoc
    /\ LET recipient == FindOne(call.target)
       IN  IF recipient = NoDoc
           THEN /\ calls' = calls \ {call}
                /\ took' = "addFriend.notFound"
           ELSE /\ calls' = (calls \ {call}) \cup {[call EXCEPT !.recipient = recipient]}
                /\ took' = "addFriend.found"
    /\ emitted' = <<>>
    /\ UNCHANGED client
    /\ scn' = Observe(Event("addFriend", call.conn, NoId, ""), onlineUsers, <<>>)
    /\ ownChoice' = Forget(ownChoice, pendingGames)
    /\ UNCHANGED <<sock, db, onlineUsers, pendingGames, nextOid, renames, registered,
                   scores, wins, friendships, wonReports, written>>

\* socket.emit('friendAdded', ...) and, if the document's socketId is a key of
\* the registry, io.to(recipient.socketId).emit('friendAdded', ...)
FriendAdded(call, users) ==
    <<Emit(call.conn, "friendAdded", Summary(call.recipient))>> \o
    (IF call.recipient.socketId # NoSocket /\ Known(users, call.recipient.socketId)
     THEN <<Emit(call.recipient.socketId, "friendAdded", Summary(call.user))>>
     ELSE <<>>)

\* insertOne has answered: the edge is stored, the notifications go out.
FriendInserted(call) ==
    /\ call \in calls
    /\ call.handler = "addFriend"
    /\ call.recipient # NoDoc
    /\ calls' = calls \ {call}
    /\ friendships' = Append(friendships, FriendEdge(call.user, call.recipient))
    /\ written' = written \cup {call.user._id, call.recipient._id}
    /\ emitted' = FriendAdded(call, onlineUsers)
    /\ took' = "addFriend.inserted"
    /\ UNCHANGED client
    /\ scn' = Observe(Event("addFriend", call.conn, NoId, ""), onlineUsers, emitted')
    /\ ownChoice' = Forget(ownChoice, pendingGames)
    /\ UNCHANGED <<sock, db, onlineUsers, pendingGames, nextOid, renames, registered,
                   scores, wins, wonReports>>

\* ----------------------------------------------------- requestInitialData
\* Mutant of FriendIds: the other end of an edge is always taken from recipientId.
FriendIds_recipientOnly(edges, id) ==
    LET mine == SelectSeq(edges, LAMBDA f : f.requesterId = id \/ f.recipientId = id)
    IN [k \in 1..Len(mine) |-> mine[k].recipientId]

\* friendships.map(f => f.requesterId.equals(user._id) ? f.recipientId : f.requesterId)
\* of the edges find({ $or: [{ requesterId }, { recipientId }] }) returns.
FriendIds(edges, id) ==
    LET mine == SelectSeq(edges, LAMBDA f : f.requesterId = id \/ f.recipientId = id)
    IN [k \in 1..Len(mine) |->
          IF Equals(mine[k].requesterId, id) THEN mine[k].recipientId
          ELSE mine[k].requesterId]

\* usersCollection.find({ _id: { $in: friendIds } }).project({ customUsername: 1,
\* _id: 1 }).toArray(): every document whose _id is among friendIds, once.
FriendDocs(friendIds) ==
    LET docs == [a \in 1..NumAccounts |->
                    [_id |-> ObjectId(a), customUsername |-> db[a].customUsername]]
    IN SelectSeq(docs, LAMBDA d : \E k \in 1..Len(friendIds) : friendIds[k] = d._id)

\* Object.values(onlineUsers).filter(u => !u.isGuest && friendIds.some(fId =>
\* fId.equals(u._id))).map(u => u._id.toString())
OnlineFriendIds(users, friendIds) ==
    LET online == SelectSeq(users, LAMBDA u :
                      ~u.isGuest /\ \E k \in 1..Len(friendIds) : Equals(friendIds[k], u._id))
    IN [k \in 1..Len(online) |-> ToStr(online[k]._id)]

InitialDataCase(c) ==
    IF ~Known(onlineUsers, c) THEN "requestInitialData.noUser"
    ELSE IF Lookup(onlineUsers, c).isGuest THEN "requestInitialData.guest"
    ELSE "requestInitialData"

\* socket.on('requestInitialData') up to its second await: the find on
\* friendships has been answered.
RequestInitialData(c) ==
    /\ Listening(c)
    /\ LET user == Lookup(onlineUsers, c)
       IN  IF user = NoUser \/ user.isGuest
           THEN UNCHANGED calls
           ELSE /\ Cardinality(calls) < MaxCalls
                /\ calls' = calls \cup
                      {Call("requestInitialData", c, user, NoId, NoDoc,
                            FriendIds(friendships, user._id))}
    /\ emitted' = <<>>
    /\ took' = InitialDataCase(c)
    /\ UNCHANGED client
    /\ scn' = Observe(Event("requestInitialData", c, NoId, ""), onlineUsers, <<>>)
    /\ ownChoice' = Forget(ownChoice, pendingGames)
    /\ UNCHANGED <<sock, db, onlineUsers, pendingGames, nextOid, renames, registered,
                   scores, wins, friendships, wonReports, written>>

\* The find on users has answered: socket.emit('friendsList', ...).
FriendsListed(call) ==
    /\ call \in calls
    /\ call.handler = "requestInitialData"
    /\ calls' = calls \ {call}
    /\ emitted' = <<Emit(call.conn, "friendsList",
                         [friends |-> FriendDocs(call.list),
                          onlineFriendIds |-> OnlineFriendIds(onlineUsers, call.list)])>>
    /\ took' = "requestInitialData.replied"
    /\ UNCHANGED client
    /\ scn' = Observe(Event("requestInitialData", call.conn, NoId, ""), onlineUsers,
                      emitted')
    /\ ownChoice' = Forget(ownChoice, pendingGames)
    /\ UNCHANGED <<sock, db, onlineUsers, pendingGames, nextOid, renames, registered,
                   scores, wins, friendships, wonReports, written>>

\* --------------------------------------------------------------- gameOver
\* The payload is not validated: mode is compared with 'single' and 'multi', won
\* is tested for truthiness.  Values are written as their JavaScript text.
WonInputs == {"true", "false", "1", "undefined"}
WonTruthy(won) == won \in {"true", "1"}

\* The payloads clients send: a single-player result is sent without won, and the
\* score of a report that is not single-player is never read.
GameOverInputs ==
    {[score |-> score, mode |-> "single", won |-> "undefined"] : score \in ScoreInputs}
    \cup {[score |-> 1, mode |-> "multi", won |-> won] : won \in WonInputs}
    \cup {[score |-> 1, mode |-> "coop", won |-> "true"]}

\* { userId, username, score, mode, createdAt } (the timestamp is left out)
ScoreRecord(user, score, mode) ==
    [userId |-> user._id, username |-> user.customUsername, score |-> score,
     mode |-> mode]

\* Mutant of IncWins: the counter is raised by two.
IncWins_twice(w, a) == [w EXCEPT ![a] = @ + 2]

\* updateOne({ _id }, { $inc: { wins: 1 } })
IncWins(w, a) == [w EXCEPT ![a] = @ + 1]

\* The scores inserted during this run (those of accounts that connect).
Inserted(recs) == Len(SelectSeq(recs, LAMBDA r : r.userId.n \in Accounts))

\* The case of a gameOver message: who sends it and what it reports.
GameOverCase(c, mode, won) ==
    IF ~Known(onlineUsers, c) THEN "gameOver.noUser"
    ELSE IF Lookup(onlineUsers, c).isGuest THEN "gameOver.guest"
    ELSE IF mode = "single" THEN "gameOver.single"
    ELSE IF mode = "multi" /\ WonTruthy(won) THEN "gameOver.won"
    ELSE "gameOver.other"

\* socket.on('gameOver'): the write is the last thing the handler does.
GameOver(c, score, mode, won) ==
    /\ Listening(c)
    /\ LET user == Lookup(onlineUsers, c)
       IN  IF user = NoUser \/ user.isGuest
           THEN UNCHANGED <<scores, wins, wonReports, written>>
           ELSE IF mode = "single"
           THEN /\ Inserted(scores) < MaxScores
                /\ scores' = Append(scores, ScoreRecord(user, score, mode))
                /\ written' = written \cup {user._id}
                /\ UNCHANGED <<wins, wonReports>>
           ELSE IF mode = "multi" /\ WonTruthy(won)
           THEN /\ \A a \in Accounts : a = user._id.n => wonReports[a] < MaxWins
                /\ wins' = IncWins(wins, user._id.n)
                /\ wonReports' = [wonReports EXCEPT ![user._id.n] = @ + 1]
                /\ written' = written \cup {user._id}
                /\ UNCHANGED scores
           ELSE UNCHANGED <<scores, wins, wonReports, written>>
    /\ emitted' = <<>>
    /\ took' = GameOverCase(c, mode, won)
    /\ UNCHANGED client
    /\ scn' = Observe(Event("gameOver", c, NoId, ""), onlineUsers, <<>>)
    /\ ownChoice' = Forget(ownChoice, pendingGames)
    /\ UNCHANGED <<sock, db, onlineUsers, pendingGames, nextOid, renames, registered,
                   friendships, calls>>

\* -------------------------------------------------------- getLeaderboards
LeaderboardLimit == 10

\* sort({ key: -1 }) of [key, doc] pairs: largest key first, equal keys in the
\* order they had (storage leaves the order of equal keys open).
RECURSIVE SortDesc(_)
SortDesc(seq) ==
    IF seq = <<>> THEN <<>>
    ELSE LET i == First({k \in 1..Len(seq) :
                            \A j \in 1..Len(seq) : seq[j].key <= seq[k].key})
         IN <<seq[i].doc>> \o SortDesc(RemoveAt(seq, i))

\* Mutant of Limit: one document more.
Limit_plusOne(seq, n) == SubSeq(seq, 1, IF Len(seq) < n + 1 THEN Len(seq) ELSE n + 1)

\* limit(n)
Limit(seq, n) == SubSeq(seq, 1, IF Len(seq) < n THEN Len(seq) ELSE n)

\* scoresCollection.find({ mode: 'single' }).sort({ score: -1 }).limit(10).toArray()
SinglePlayer(recs) ==
    LET single == SelectSeq(recs, LAMBDA r : r.mode = "single")
    IN Limit(SortDesc([k \in 1..Len(single) |-> [key |-> single[k].score, doc |-> single[k]]]),
             LeaderboardLimit)

\* The documents of the users collection, as far as the leaderboard shows them.
UserDocs(w) ==
    [k \in 1..(NumAccounts + NumOffline) |->
        LET a == IF k <= NumAccounts THEN k ELSE NumAccounts - k
        IN [_id |-> ObjectId(a),
            customUsername |-> IF a \in Accounts THEN db[a].customUsername ELSE "Old",
            wins |-> w[a]]]

\* usersCollection.find({ wins: { $gt: 0 } }).sort({ wins: -1 }).limit(10).toArray()
MultiPlayer(w) ==
    LET winners == SelectSeq(UserDocs(w), LAMBDA u : u.wins > 0)
    IN Limit(SortDesc([k \in 1..Len(winners) |-> [key |-> winners[k].wins, doc |-> winners[k]]]),
             LeaderboardLimit)

\* socket.on('getLeaderboards') up to its second await: the find on scores has
\* been answered (from the collection as it is when the query arrives).
GetLeaderboards(c) ==
    /\ Listening(c)
    /\ Cardinality(calls) < MaxCalls
    /\ calls' = calls \cup
          {Call("getLeaderboards", c, NoUser, NoId, NoDoc, SinglePlayer(scores))}
    /\ emitted' = <<>>
    /\ took' = "getLeaderboards"
    /\ UNCHANGED client
    /\ scn' = Observe(Event("getLeaderboards", c, NoId, ""), onlineUsers, <<>>)
    /\ ownChoice' = Forget(ownChoice, pendingGames)
    /\ UNCHANGED <<sock, db, onlineUsers, pendingGames, nextOid, renames, registered,
                   scores, wins, friendships, wonReports, written>>

\* The find on users has answered: socket.emit('leaderboards', ...).
LeaderboardsDone(call) ==
    /\ call \in calls
    /\ call.handler = "getLeaderboards"
    /\ calls' = calls \ {call}
    /\ emitted' = <<Emit(call.conn, "leaderboards",
                         [singlePlayer |-> call.list,
                          multiPlayer |-> MultiPlayer(wins)])>>
    /\ took' = "getLeaderboards.replied"
    /\ UNCHANGED client
    /\ scn' = Observe(Event("getLeaderboards", call.conn, NoId, ""), onlineUsers, emitted')
    /\ ownChoice' = Forget(ownChoice, pendingGames)
    /\ UNCHANGED <<sock, db, onlineUsers, pendingGames, nextOid, renames, registered,
                   scores, wins, friendships, wonReports, written>>

\* ------------------------------------------------------ the specification
\* The strings clients send as toUserId and senderId: the text of every account
\* id and guest id handed out so far, and one that names nobody.
UserIdInputs ==
    {HexStr(n) : n \in Accounts \cup {nextOid}} \cup
    {GuestStr(n) : n \in (NumAccounts + 1)..(nextOid - 1)}

\* The strings clients send as gameId: the text of every ObjectId generated so
\* far (the games, pending or started) and one never generated.
GameIdInputs == {HexStr(n) : n \in (NumAccounts + 1)..nextOid}

\* The session a handshake carries: the first connections are the accounts' own;
\* a later one is anonymous or a second connection of account 1.
Sessions(c) == IF c \in Accounts THEN {c} ELSE {NoSession, 1}

\* A handler is suspended on storage.
Busy == renames # {} \/ \E c \in Conns : sock[c].pc \in {"lookup", "marker", "unset"}

\* The lobby: connections open and stay, a connection without a record may ask
\* for a guest identity, and every connection may send any invite, accept or
\* difficulty message.  Storage answers a handshake before the next client event
\* arrives.  (Disconnects and renames are the subject of SpecPresence.)
Next ==
    \/ /\ ~Busy
       /\ \/ \E c \in Conns : \E s \in Sessions(c) : Connect(c, s)
          \/ \E c \in Conns : Lookup(onlineUsers, c) = NoUser /\ GuestLogin(c)
          \/ \E c \in Conns, toUserId \in UserIdInputs : SendInvite(c, toUserId)
          \/ \E c \in Conns, senderId \in UserIdInputs : AcceptInvite(c, senderId)
          \/ \E c \in Conns, gameId \in GameIdInputs, difficulty \in Difficulties :
                DifficultySelected(c, gameId, difficulty)
    \/ \E c \in Conns : LookupDone(c)
    \/ \E c \in Conns : MarkerDone(c)

Spec == Init /\ [][Next]_vars

\* The registry alone, under every interleaving of the handlers' suspensions:
\* any session on any connection, renames, guests, disconnects.
NextPresence ==
    \/ \E c \in Conns, s \in Accounts \cup {NoSession} : Connect(c, s)
    \/ \E c \in Conns : LookupDone(c)
    \/ \E c \in Conns : MarkerDone(c)
    \/ \E c \in Conns : Disconnect(c)
    \/ \E c \in Conns : UnsetDone(c)
    \/ \E c \in Conns : GuestLogin(c)
    \/ renames = {} /\ \E c \in Conns, username \in Names : SetUsername(c, username)
    \/ \E r \in renames : RenameDone(r)

SpecPresence == Init /\ [][NextPresence]_vars

\* The match relay: the lobby without invitations (an accept needs none), and
\* score updates.  Storage answers a handshake before the next client event.
NextMatch ==
    \/ /\ ~Busy
       /\ \/ \E c \in Conns : \E s \in Sessions(c) : Connect(c, s)
          \/ \E c \in Conns : Lookup(onlineUsers, c) = NoUser /\ GuestLogin(c)
          \/ \E c \in Conns, senderId \in UserIdInputs : AcceptInvite(c, senderId)
          \/ \E c \in Conns, gameId \in GameIdInputs, difficulty \in Difficulties :
                DifficultySelected(c, gameId, difficulty)
          \/ \E c \in Conns, score \in ScoreInputs : ScoreUpdate(c, score)
    \/ \E c \in Conns : LookupDone(c)
    \/ \E c \in Conns : MarkerDone(c)

SpecMatch == Init /\ [][NextMatch]_vars

\* What storage holds from earlier runs, all of it of accounts that are not
\* online in this one: ten single-player scores, and wins of every such account.
OldScores ==
    [k \in 1..LeaderboardLimit |->
        [userId |-> ObjectId(0 - (((k - 1) % NumOffline) + 1)), username |-> "Old",
         score |-> k % 3, mode |-> "single"]]

OldWins == [a \in Stored |-> IF a \in Offline THEN 1 + ((0 - a) % 2) ELSE 0]

InitStored ==
    /\ Fresh
    /\ scores \in {<<>>, OldScores}
    /\ wins \in {NoWins, OldWins}

\* Scores and leaderboards: connections of the two accounts and a guest report
\* game results and ask for the leaderboards; a leaderboard query may be answered
\* after any number of other events.  Storage answers a handshake before the next
\* client event.
NextScores ==
    \/ /\ ~Busy
       /\ \/ \E c \in Conns : \E s \in Sessions(c) : Connect(c, s)
          \/ \E c \in Conns : Lookup(onlineUsers, c) = NoUser /\ GuestLogin(c)
          \/ \E c \in Conns, p \in GameOverInputs : GameOver(c, p.score, p.mode, p.won)
          \/ \E c \in Conns : GetLeaderboards(c)
    \/ \E c \in Conns : LookupDone(c)
    \/ \E c \in Conns : MarkerDone(c)
    \/ \E call \in calls : LeaderboardsDone(call)

SpecScores == InitStored /\ [][NextScores]_vars

\* The ids clients send as friendId: the hex text of each account id in lower
\* and in upper case, the hex text of an ObjectId that is no account, and a
\* string that is no hex text.
FriendIdInputs ==
    {HexStr(a) : a \in Accounts} \cup {UpperStr(a) : a \in Accounts}
    \cup {HexStr(DeletedAccount), GuestStr(NumAccounts + 1)}

\* The social graph: connections come and go, add friends and ask for their
\* lists; a suspended addFriend or requestInitialData may be answered after any
\* number of other events.  Storage answers a handshake or a disconnect before
\* the next client event.
NextFriends ==
    \/ /\ ~Busy
       /\ \/ \E c \in Conns : \E s \in Sessions(c) : Connect(c, s)
          \/ \E c \in Conns : Lookup(onlineUsers, c) = NoUser /\ GuestLogin(c)
          \/ \E c \in Conns : Disconnect(c)
          \/ \E c \in Conns, friendId \in FriendIdInputs : AddFriend(c, friendId)
          \/ \E c \in Conns : RequestInitialData(c)
    \/ \E c \in Conns : LookupDone(c)
    \/ \E c \in Conns : MarkerDone(c)
    \/ \E c \in Conns : UnsetDone(c)
    \/ \E call \in calls : FriendFound(call)
    \/ \E call \in calls : FriendInserted(call)
    \/ \E call \in calls : FriendsListed(call)

SpecFriends == Init /\ [][NextFriends]_vars

\* ------------------------------------------------------------------ claims

\* C1: every acceptInvite processed while the accepter's connection and an online
\* user with senderId are both registered appends exactly one PendingGame, under a
\* gameId that was not a key of the table, leaves the games already there as they
\* were, fills player1 from the sender's record and player2 from the accepter's,
\* both difficulties null, and emits exactly two showDifficultySelect, one to the
\* sender's connection and one to the accepter's, both with that gameId.
C1_AcceptCreatesOneFreshGame ==
    [][took' = "acceptInvite.both" =>
       \A c \in Conns, senderId \in UserIdInputs :
        LET accepter == Lookup(onlineUsers, c)
            sender == FindUserById(onlineUsers, senderId)
            n == Len(pendingGames)
        IN  ( /\ Known(onlineUsers, c) /\ OnlineId(onlineUsers, senderId)
              /\ AcceptInvite(c, senderId) ) =>
              /\ Len(pendingGames') = n + 1
              /\ SubSeq(pendingGames', 1, n) = pendingGames
              /\ pendingGames'[n + 1].gameId \notin GameIds(pendingGames)
              /\ pendingGames'[n + 1].player1 =
                    [id |-> sender._id, socketId |-> sender.socketId,
                     name |-> sender.customUsername, difficulty |-> null]
              /\ pendingGames'[n + 1].player2 =
                    [id |-> accepter._id, socketId |-> c,
                     name |-> accepter.customUsername, difficulty |-> null]
              /\ Len(emitted') = 2
              /\ emitted'[1].to = sender.socketId
              /\ emitted'[2].to = c
              /\ \A i \in 1..2 :
                    /\ emitted'[i].ev = "showDifficultySelect"
                    /\ emitted'[i].data = [gameId |-> pendingGames'[n + 1].gameId]
    ]_vars

\* C1 witness: an accept between two different connections has just created a
\* second game beside one that was pending.
C1_Witness ==
    /\ took = "acceptInvite.both"
    /\ Len(pendingGames) = 2
    /\ Len(emitted) = 2
    /\ emitted[1].to # emitted[2].to

\* C2 (as claimed): no PendingGame of the table has both difficulties non-null.
C2_NoPendingGameWithBothChosen ==
    \A i \in 1..Len(pendingGames) :
        ~(pendingGames[i].player1.difficulty # null /\
          pendingGames[i].player2.difficulty # null)

\* C3 (as claimed): a gameStart sent to a slot's connection carries the difficulty
\* that slot's own account sent last for the game.  The run that starts a game
\* emits updateDifficultyChoices twice, then gameStart to player1, then to player2.
C3_GameStartCarriesOwnChoice ==
    (took = "difficultySelected.both" /\ Len(emitted) = 4) =>
        /\ emitted[3].data.difficulty = ownChoice[emitted[3].data.gameId].p1
        /\ emitted[4].data.difficulty = ownChoice[emitted[4].data.gameId].p2

\* The notification e is among those sent to connection c during the scenario.
Received(c, e) == \E i \in 1..Len(scn.inbox[c]) : scn.inbox[c][i] = e

\* C4 (as claimed): once X (account 1) has invited Y (account 2), Y has accepted,
\* X has sent "easy" and Y has sent "hard" for the announced game g, both have
\* received showDifficultySelect{g}, X gameStart{g, Y's name, "easy"}, Y
\* gameStart{g, X's name, "hard"}, and g is no longer pending.
C4_ScenarioEndsInGameStart ==
    scn.step = 4 =>
        /\ Received(scn.X, Emit(scn.X, "showDifficultySelect", [gameId |-> scn.g]))
        /\ Received(scn.Y, Emit(scn.Y, "showDifficultySelect", [gameId |-> scn.g]))
        /\ Received(scn.X, Emit(scn.X, "gameStart",
              [gameId |-> scn.g, difficulty |-> "easy",
               opponentName |-> Lookup(onlineUsers, scn.Y).customUsername]))
        /\ Received(scn.Y, Emit(scn.Y, "gameStart",
              [gameId |-> scn.g, difficulty |-> "hard",
               opponentName |-> Lookup(onlineUsers, scn.X).customUsername]))
        /\ scn.g \notin GameIds(pendingGames)

\* C5: a difficultySelected whose gameId is no key of the pending table, or whose
\* connection has no record, changes neither table nor registry and emits nothing.
C5_DifficultyForNoGameOrNoPlayerIsDropped ==
    [][took' \in {"difficultySelected.noGame", "difficultySelected.noPlayer"} =>
          /\ pendingGames' = pendingGames
          /\ onlineUsers' = onlineUsers
          /\ emitted' = <<>>
    ]_vars

\* C5 witness: a connection without a record has just sent a difficulty for a
\* game that is pending.
C5_Witness ==
    /\ took = "difficultySelected.noPlayer"
    /\ Len(pendingGames) > 0
    /\ emitted = <<>>

\* C6: a sendInvite whose toUserId is the account id of no record, or whose
\* connection has no record, emits nothing and changes neither registry nor table.
C6_InviteToNobodyIsDropped ==
    [][took' \in {"sendInvite.noSender", "sendInvite.noRecipient"} =>
          /\ emitted' = <<>>
          /\ onlineUsers' = onlineUsers
          /\ pendingGames' = pendingGames
    ]_vars

\* C6 witness: a connection without a record has just invited an account that is
\* online.
C6_Witness ==
    /\ took = "sendInvite.noSender"
    /\ Len(onlineUsers) > 0
    /\ emitted = <<>>

\* C7: a sendInvite from a registered connection to the id of an online record
\* emits exactly one inviteReceived, addressed to the connection of a record with
\* that id, carrying the sender's account id and the name in the sender's record;
\* registry, table and users collection are unchanged.
C7_InviteReachesTargetOnly ==
    [][took' = "sendInvite.both" =>
       \A c \in Conns, toUserId \in UserIdInputs :
        ( /\ OnlineId(onlineUsers, toUserId) /\ Known(onlineUsers, c)
          /\ SendInvite(c, toUserId) ) =>
              /\ Len(emitted') = 1
              /\ emitted'[1].ev = "inviteReceived"
              /\ ToStr(Lookup(onlineUsers, emitted'[1].to)._id) = toUserId
              /\ emitted'[1].data =
                    [fromId |-> ToStr(Lookup(onlineUsers, c)._id),
                     fromName |-> Lookup(onlineUsers, c).customUsername]
              /\ onlineUsers' = onlineUsers
              /\ pendingGames' = pendingGames
              /\ db' = db
    ]_vars

\* C7 witness: an invitation has just gone from one identity to another.
C7_Witness ==
    /\ took = "sendInvite.both"
    /\ Len(emitted) = 1
    /\ emitted[1].data.fromId # ToStr(Lookup(onlineUsers, emitted[1].to)._id)

\* C8: a difficultySelected for a pending game from a registered connection emits
\* exactly two updateDifficultyChoices, the first to player1's connection and the
\* second to player2's; each one's myChoice is the other's opponentChoice; the
\* choices reported are those before the run with one slot set to the difficulty
\* sent, and are the slots' if the game stays pending; when neither slot held a
\* choice before, one of the two is told that the opponent's choice is null.
C8_BothAreToldBothChoices ==
    [][took' = "difficultySelected.both" =>
       \A c \in Conns, gameId \in GameIdInputs, difficulty \in Difficulties :
        ( /\ Pending(pendingGames, gameId) /\ Known(onlineUsers, c)
          /\ DifficultySelected(c, gameId, difficulty) ) =>
            LET before == GameOf(pendingGames, gameId)
                upd == SelectSeq(emitted', LAMBDA e : e.ev = "updateDifficultyChoices")
            IN  /\ Len(upd) = 2
                /\ upd[1].to = before.player1.socketId
                /\ upd[2].to = before.player2.socketId
                /\ upd[1].data.myChoice = upd[2].data.opponentChoice
                /\ upd[2].data.myChoice = upd[1].data.opponentChoice
                /\ \/ /\ upd[1].data.myChoice = difficulty
                      /\ upd[2].data.myChoice = before.player2.difficulty
                   \/ /\ upd[1].data.myChoice = before.player1.difficulty
                      /\ upd[2].data.myChoice = difficulty
                /\ gameId \in GameIds(pendingGames') =>
                      /\ GameOf(pendingGames', gameId).player1.difficulty =
                            upd[1].data.myChoice
                      /\ GameOf(pendingGames', gameId).player2.difficulty =
                            upd[2].data.myChoice
                /\ (before.player1.difficulty = null /\ before.player2.difficulty = null)
                      => \/ upd[1].data.opponentChoice = null
                         \/ upd[2].data.opponentChoice = null
    ]_vars

\* C8 witness: player1 alone has chosen, and both connections (two different
\* ones) have just been told so.
C8_Witness ==
    /\ took = "difficultySelected.both"
    /\ Len(emitted) = 2
    /\ emitted[1].to # emitted[2].to
    /\ emitted[1].data.myChoice = "easy"
    /\ emitted[1].data.opponentChoice = null
    /\ emitted[2].data.opponentChoice = "easy"

\* C9: looking up a socket id returns the record registered last for it (by the
\* handshake or by guestLogin, which overwrites), under that key once, and nothing
\* once the disconnect handler of the socket has run to its end.
C9_LookupReturnsLastRegistered ==
    \A c \in Conns :
        /\ Lookup(onlineUsers, c)._id = registered[c]
        /\ Lookup(onlineUsers, c).isGuest = (registered[c].pre = "guest_")
        /\ Cardinality({i \in 1..Len(onlineUsers) : onlineUsers[i].socketId = c}) <= 1
        /\ sock[c].pc = "done" => Lookup(onlineUsers, c) = NoUser

\* C9 witness: a guest login has overwritten the record of an authenticated
\* connection, and the disconnect of another registered connection has been
\* processed.
C9_Witness ==
    /\ \E c \in Conns :
          /\ sock[c].session # NoSession
          /\ Lookup(onlineUsers, c).isGuest
    /\ \E c \in Conns :
          /\ sock[c].pc = "done"
          /\ sock[c].session # NoSession
          /\ Lookup(onlineUsers, c) = NoUser

\* C10 (as claimed): each non-guest account id is in at most one record.
C10_AccountOnlineAtMostOnce ==
    \A i, j \in 1..Len(onlineUsers) :
        ( /\ i # j
          /\ ~onlineUsers[i].isGuest
          /\ ~onlineUsers[j].isGuest ) => onlineUsers[i]._id # onlineUsers[j]._id

\* C11 (as claimed, for the scoreUpdate that directly follows the run that
\* broadcast gameStart to two different connections of two different accounts):
\* a scoreUpdate sent by one of the two participants emits exactly one
\* opponentScoreUpdate with that score, addressed to the other participant.
C11_ScoreReachesOpponentAfterStart ==
    [][( /\ took = "difficultySelected.both" /\ Len(emitted) = 4
         /\ emitted[3].to # emitted[4].to
         /\ Lookup(onlineUsers, emitted[3].to)._id # Lookup(onlineUsers, emitted[4].to)._id
         /\ took' = "scoreUpdate" ) =>
       \A score \in ScoreInputs :
          /\ ScoreUpdate(emitted[3].to, score) =>
                emitted' = <<Emit(emitted[4].to, "opponentScoreUpdate", score)>>
          /\ ScoreUpdate(emitted[4].to, score) =>
                emitted' = <<Emit(emitted[3].to, "opponentScoreUpdate", score)>>
    ]_vars

\* C12: a gameOver from a registered non-guest connection appends exactly one
\* score record (account, name of the record, score, mode) when mode is 'single',
\* raises the reporter's wins by exactly one when mode is 'multi' and won holds,
\* and leaves scores and wins alone otherwise; friendships and the users' names
\* and markers are never changed; an account's wins always equal the number of
\* its multi/won reports that were processed.
C12_GameOverPersistsOwnReport ==
    /\ [][took' \in {"gameOver.single", "gameOver.won", "gameOver.other"} =>
           \A c \in Conns, p \in GameOverInputs :
             LET user == Lookup(onlineUsers, c)
             IN ( /\ Known(onlineUsers, c) /\ ~user.isGuest
                  /\ GameOver(c, p.score, p.mode, p.won) ) =>
                  /\ scores' =
                        IF p.mode = "single"
                        THEN Append(scores, [userId |-> user._id,
                                             username |-> user.customUsername,
                                             score |-> p.score, mode |-> "single"])
                        ELSE scores
                  /\ wins' =
                        IF p.mode = "multi" /\ WonTruthy(p.won)
                        THEN [a \in Stored |->
                                IF a = user._id.n THEN wins[a] + 1 ELSE wins[a]]
                        ELSE wins
                  /\ friendships' = friendships
                  /\ db' = db
        ]_vars
    /\ [](\A a \in Accounts : wins[a] = wonReports[a])

\* C12 witness: both accounts have reported a win and a single-player score has
\* been stored.
C12_Witness ==
    /\ took = "gameOver.won"
    /\ \A a \in Accounts : wins[a] >= 1
    /\ Inserted(scores) = 1

\* The number of times r occurs in seq.
Count(seq, r) == Cardinality({i \in 1..Len(seq) : seq[i] = r})

\* list is a top list of the single-player records recs.
TopSingle(list, recs) ==
    /\ Len(list) <= LeaderboardLimit
    /\ \A i \in 1..Len(list) :
          /\ list[i].mode = "single"
          /\ Count(list, list[i]) <= Count(recs, list[i])
    /\ \A i, j \in 1..Len(list) : i < j => list[i].score >= list[j].score
    /\ \A k \in 1..Len(recs) :
          (recs[k].mode = "single" /\ Count(list, recs[k]) < Count(recs, recs[k]))
             => \A i \in 1..Len(list) : recs[k].score <= list[i].score

\* list is a top list of the accounts with wins w.
TopMulti(list, w) ==
    /\ Len(list) <= LeaderboardLimit
    /\ \A i \in 1..Len(list) :
          /\ list[i]._id.n \in Stored
          /\ list[i].wins = w[list[i]._id.n]
          /\ list[i].wins > 0
    /\ \A i, j \in 1..Len(list) :
          i < j => list[i].wins >= list[j].wins /\ list[i]._id # list[j]._id

\* C18: getLeaderboards changes no collection, registry or table; the scores it
\* reads are at most 10 stored records of mode 'single', in non-increasing score
\* order, no omitted single record having a higher score than one returned; its
\* only notification is one leaderboards reply to the asking connection with
\* those scores and at most 10 accounts, each with its wins and wins > 0, in
\* non-increasing order of wins (so both lists are empty when nothing is stored).
C18_LeaderboardsAreTopTen ==
    [][/\ took' = "getLeaderboards" =>
             /\ \E call \in calls' \ calls : TopSingle(call.list, scores)
             /\ emitted' = <<>>
       /\ took' = "getLeaderboards.replied" =>
             \E call \in calls \ calls' :
                /\ Len(emitted') = 1
                /\ emitted'[1].to = call.conn
                /\ emitted'[1].ev = "leaderboards"
                /\ emitted'[1].data.singlePlayer = call.list
                /\ TopMulti(emitted'[1].data.multiPlayer, wins)
       /\ took' \in {"getLeaderboards", "getLeaderboards.replied"} =>
             /\ scores' = scores /\ wins' = wins /\ friendships' = friendships
             /\ db' = db /\ onlineUsers' = onlineUsers /\ pendingGames' = pendingGames
    ]_vars

\* C18 witness: a reply has just been sent whose two lists are both cut to ten:
\* an old score was left out for one stored in this run, and eleven accounts have
\* wins.
C18_Witness ==
    /\ took = "getLeaderboards.replied"
    /\ Len(emitted[1].data.singlePlayer) = LeaderboardLimit
    /\ \E i \in 1..LeaderboardLimit : emitted[1].data.singlePlayer[i].userId.n \in Accounts
    /\ Len(emitted[1].data.multiPlayer) = LeaderboardLimit
    /\ Cardinality({a \in Stored : wins[a] > 0}) > LeaderboardLimit

\* The names sent as setUsername's newName.
RenameInputs == {"Zed", "Zoe"}

\* Renames: two connections with account 1's session or none, guests,
\* disconnects, and up to MaxRenames setUsername
\* handlers suspended at once, whose updates storage applies in any order.
NextRename ==
    \/ \E c \in 1..2, s \in {NoSession, 1} : Connect(c, s)
    \/ \E c \in Conns : LookupDone(c)
    \/ \E c \in Conns : MarkerDone(c)
    \/ \E c \in Conns : Disconnect(c)
    \/ \E c \in Conns : UnsetDone(c)
    \/ \E c \in Conns : GuestLogin(c)
    \/ \E c \in Conns, username \in RenameInputs : SetUsername(c, username)
    \/ \E r \in renames : RenameStored(r)
    \/ \E r \in renames : RenameDone(r)

SpecRename == Init /\ [][NextRename]_vars

\* C19: setUsername from a connection without a record or with a guest record
\* changes nothing and emits nothing; from a connection with an account's record,
\* when the handler has run to its end, the name in the account's registry
\* record of that connection (if it still has one) and the stored name of the
\* account are both the name it was sent.
C19_RenameTakesEffect ==
    /\ [][\A c \in Conns, username \in RenameInputs :
             ( /\ took' = "setUsername"
               /\ Lookup(onlineUsers, c) = NoUser \/ Lookup(onlineUsers, c).isGuest
               /\ SetUsername(c, username) )
             => /\ UNCHANGED <<sock, db, onlineUsers, pendingGames, renames, store>>
                /\ emitted' = <<>>]_vars
    /\ [][took' = "setUsername.renamed" =>
             \E r \in renames \ renames' :
                 /\ db'[r.account].customUsername = r.username
                 /\ (Known(onlineUsers', r.conn) /\ ~Lookup(onlineUsers', r.conn).isGuest) =>
                       Lookup(onlineUsers', r.conn).customUsername = r.username]_vars

\* Handshakes: every connection comes with the session of an account, of a
\* deleted account or with none; the lookup of the account may fail; connections
\* ask for guest identities and close.
NextHandshake ==
    \/ \E c \in Conns, s \in Accounts \cup {NoSession, DeletedAccount} : Connect(c, s)
    \/ \E c \in Conns : LookupDone(c)
    \/ \E c \in Conns : LookupFailed(c)
    \/ \E c \in Conns : MarkerDone(c)
    \/ \E c \in Conns : GuestLogin(c)
    \/ \E c \in Conns : Disconnect(c)
    \/ \E c \in Conns : UnsetDone(c)

SpecHandshake == Init /\ [][NextHandshake]_vars

\* C20: a connection gets an account's record only in its handshake, when its
\* session names an account that exists and the lookup answered; with no
\* session, a deleted account or a failed lookup the handshake changes nothing,
\* emits nothing and leaves the connection ready without a record.
C20_RecordOnlyForExistingAccount ==
    /\ [][\A c \in Conns :
             ( /\ Lookup(onlineUsers', c) # Lookup(onlineUsers, c)
               /\ Known(onlineUsers', c)
               /\ ~Lookup(onlineUsers', c).isGuest )
             => /\ sock[c].pc = "lookup"
                /\ took' = "connection.registered"
                /\ sock[c].session \in Accounts
                /\ Lookup(onlineUsers', c) =
                      [socketId |-> c, _id |-> ObjectId(sock[c].session),
                       customUsername |-> db[sock[c].session].customUsername,
                       isGuest |-> FALSE]]_vars
    /\ [][\A c \in Conns :
             ( /\ sock[c].pc \in {"new", "lookup"}
               /\ sock'[c].pc \notin {"new", "lookup"}
               /\ \/ sock'[c].session \notin Accounts
                  \/ took' = "connection.noUser" )
             => /\ sock'[c].pc = "ready"
                /\ ~Known(onlineUsers', c)
                /\ emitted' = <<>>
                /\ UNCHANGED <<db, onlineUsers, pendingGames, renames, store>>]_vars

\* C20 witness: a handshake whose session names a deleted account has ended
\* without a record while an account's own handshake had registered one.
C20_Witness ==
    /\ took = "connection.noUser"
    /\ \E c \in Conns :
          /\ sock[c].session = DeletedAccount
          /\ sock[c].pc = "ready"
          /\ ~Known(onlineUsers, c)
    /\ \E c \in Conns : Known(onlineUsers, c) /\ ~Lookup(onlineUsers, c).isGuest

\* No game result, no friend request and no rename has been stored so far.
NoScores == scores = <<>> /\ wins = NoWins
NoFriends == friendships = <<>> /\ calls = {}
NoRenames == \A a \in Accounts : db[a].customUsername \notin Names

\* Everything that writes to storage: handshakes, disconnects, renames, game
\* results and friend requests, from accounts, guests and connections without
\* a record.  Storage answers a handshake, a disconnect or a rename before the
\* next client event; a suspended addFriend may be answered later.  The three
\* kinds of message write disjoint data and read only the registry, so a
\* behaviour stores the results of one kind (the others are still sent, by
\* every connection, as long as nothing of another kind is stored).
NextPersist ==
    \/ /\ ~Busy
       /\ \/ \E c \in Conns : \E s \in Sessions(c) : Connect(c, s)
          \/ \E c \in Conns : GuestLogin(c)
          \/ \E c \in Conns : Disconnect(c)
          \/ /\ NoScores /\ NoFriends
             /\ \E c \in Conns, username \in Names : SetUsername(c, username)
          \/ /\ NoFriends /\ NoRenames
             /\ \E c \in Conns, p \in GameOverInputs : GameOver(c, p.score, p.mode, p.won)
          \/ /\ NoScores /\ NoRenames
             /\ \E c \in Conns, friendId \in UserIdInputs : AddFriend(c, friendId)
    \/ \E c \in Conns : LookupDone(c)
    \/ \E c \in Conns : MarkerDone(c)
    \/ \E c \in Conns : UnsetDone(c)
    \/ \E r \in renames : RenameDone(r)
    \/ \E call \in calls : FriendFound(call)
    \/ \E call \in calls : FriendInserted(call)

SpecPersist == Init /\ [][NextPersist]_vars

\* `guest_${new ObjectId()}`: the ids guestLogin creates.
IsGuestId(id) == id.kind = "str" /\ id.pre = "guest_"

\* C13: nothing persisted refers to a guest identity: no score record, no
\* friendship edge (as requester or recipient), and no document whose wins, name
\* or connection marker was written, has an id created by guestLogin.
C13_NoGuestPersisted ==
    /\ \A k \in 1..Len(scores) : ~IsGuestId(scores[k].userId)
    /\ \A k \in 1..Len(friendships) :
          ~IsGuestId(friendships[k].requesterId) /\ ~IsGuestId(friendships[k].recipientId)
    /\ \A id \in written : ~IsGuestId(id)

\* C13 witness: a connection that was an account's and became a guest's has
\* just reported a game result, after a score and a win of accounts were stored.
C13_Witness ==
    /\ took = "gameOver.guest"
    /\ Inserted(scores) > 0
    /\ \E a \in Accounts : wins[a] > 0
    /\ \E c \in Conns :
          /\ sock[c].session \in Accounts
          /\ Known(onlineUsers, c)
          /\ Lookup(onlineUsers, c).isGuest

\* The edges of the collection between the accounts with ids a and b.
EdgesBetween(edges, a, b) ==
    {k \in 1..Len(edges) :
        \/ edges[k].requesterId = a /\ edges[k].recipientId = b
        \/ edges[k].requesterId = b /\ edges[k].recipientId = a}

\* The entries of a friends list that describe the account with id b.
Entries(friends, b) == {k \in 1..Len(friends) : friends[k]._id = b}

\* C14: the friends list pushed on requestInitialData has one entry per stored
\* edge: another account the requester added twice (two edges between them)
\* appears in the requester's list twice.
C14_OneEntryPerEdge ==
    [][took' = "requestInitialData.replied" =>
         \A call \in calls \ calls' : \A b \in Accounts \ {call.user._id.n} :
             Cardinality(Entries(emitted'[1].data.friends, ObjectId(b)))
                 = Cardinality(EdgesBetween(friendships, call.user._id, ObjectId(b)))]_vars

\* C15: an addFriend message from an unregistered or guest connection, naming
\* the sender's own account, a malformed id or no account, stores no edge and
\* notifies nobody, in any of its steps; every other addFriend stores exactly one
\* edge (requester, recipient, 'accepted') when it completes.
C15_AddFriendEdgeOrNothing ==
    /\ [][\A c \in Conns, friendId \in FriendIdInputs :
             ( /\ took' = AddFriendCase(c, friendId)
               /\ AddFriend(c, friendId) )
             => IF took' = "addFriend"
                THEN /\ friendships' = friendships
                     /\ emitted' = <<>>
                     /\ \E call \in calls' \ calls :
                           /\ call.user = Lookup(onlineUsers, c)
                           /\ call.target = ParseObjectId(friendId)
                ELSE /\ friendships' = friendships
                     /\ emitted' = <<>>
                     /\ calls' = calls]_vars
    /\ [][took' \in {"addFriend.found", "addFriend.notFound", "addFriend.inserted"} =>
             \E call \in calls \ calls' :
                 /\ call.target.n \in Accounts
                 /\ call.target # call.user._id
                 /\ IF took' = "addFriend.inserted"
                    THEN friendships' = Append(friendships,
                             [requesterId |-> call.user._id, recipientId |-> call.target,
                              status |-> "accepted"])
                    ELSE /\ friendships' = friendships
                         /\ emitted' = <<>>
                         /\ took' = "addFriend.found"]_vars

\* The sockets whose registry record is the account with id a.
SocketsOf(users, a) == {users[k].socketId : k \in {i \in 1..Len(users) : users[i]._id = a}}

\* C16: when an addFriend completes, the requester's connection gets friendAdded
\* with the recipient's summary, and the recipient account gets friendAdded with
\* the requester's summary, on a connection of its own, exactly when it has a
\* record in the registry.
C16_BothSidesNotified ==
    [][took' = "addFriend.inserted" =>
         \E call \in calls \ calls' :
             LET online == SocketsOf(onlineUsers, call.recipient._id)
             IN /\ emitted'[1] = Emit(call.conn, "friendAdded",
                       [_id |-> call.recipient._id,
                        customUsername |-> db[call.recipient._id.n].customUsername])
                /\ IF online = {}
                   THEN Len(emitted') = 1
                   ELSE /\ Len(emitted') = 2
                        /\ emitted'[2].to \in online
                        /\ emitted'[2].ev = "friendAdded"
                        /\ emitted'[2].data =
                              [_id |-> call.user._id,
                               customUsername |-> call.user.customUsername]]_vars

\* C17: the friends list computed for an account holds the other end of every
\* edge the account is part of, whether it is the edge's requester or its
\* recipient: the ids read from the edges name every other end, and the list
\* delivered has an entry for every id read.
C17_FriendshipSymmetric ==
    /\ [][took' = "requestInitialData" =>
             \E call \in calls' \ calls :
                 \A k \in 1..Len(friendships) :
                     /\ friendships[k].requesterId = call.user._id =>
                           \E i \in 1..Len(call.list) : call.list[i] = friendships[k].recipientId
                     /\ friendships[k].recipientId = call.user._id =>
                           \E i \in 1..Len(call.list) : call.list[i] = friendships[k].requesterId]_vars
    /\ [][took' = "requestInitialData.replied" =>
             \E call \in calls \ calls' :
                 /\ emitted'[1].to = call.conn
                 /\ emitted'[1].ev = "friendsList"
                 /\ \A i \in 1..Len(call.list) :
                       Entries(emitted'[1].data.friends, call.list[i]) # {}]_vars

\* C17 witness: account 2 added account 1, and the list delivered to account 1,
\* the recipient of the only edge, names account 2.
C17_Witness ==
    /\ took = "requestInitialData.replied"
    /\ friendships = <<[requesterId |-> AccountY, recipientId |-> AccountX,
                        status |-> "accepted"]>>
    /\ Lookup(onlineUsers, emitted[1].to) # NoUser
    /\ Lookup(onlineUsers, emitted[1].to)._id = AccountX
    /\ Entries(emitted[1].data.friends, AccountY) # {}

\* C21: a disconnect the connection's handler processes removes the record of
\* that connection and leaves the record of every other connection as it was;
\* for a guest's record or none it writes nothing to storage, for an account's
\* record it first unsets the socketId field of that account's document, and of
\* no other document.
C21_DisconnectRemovesOwnRecord ==
    /\ [][\A c \in Conns :
             ( /\ took' = "disconnect"
               /\ sock[c].open /\ ~sock'[c].open )
             => /\ db' = db
                /\ \A b \in Conns \ {c} : Lookup(onlineUsers', b) = Lookup(onlineUsers, b)
                /\ IF Known(onlineUsers, c) /\ ~Lookup(onlineUsers, c).isGuest
                   THEN onlineUsers' = onlineUsers /\ sock'[c].pc = "unset"
                   ELSE ~Known(onlineUsers', c) /\ sock'[c].pc = "done"]_vars
    /\ [][\A c \in Conns :
             ( /\ took' = "disconnect.deleted"
               /\ sock[c].pc = "unset" /\ sock'[c].pc = "done" )
             => /\ ~Known(onlineUsers', c)
                /\ Len(onlineUsers') = Len(onlineUsers) - 1
                /\ \A b \in Conns \ {c} : Lookup(onlineUsers', b) = Lookup(onlineUsers, b)
                /\ \A a \in Accounts :
                      IF ObjectId(a) = Lookup(onlineUsers, c)._id
                      THEN /\ db'[a].socketId = NoSocket
                           /\ db'[a].customUsername = db[a].customUsername
                      ELSE db'[a] = db[a]]_vars

\* C21 witness: an account's connection has just been removed and the marker
\* cleared while another connection of the same account and a guest stay
\* registered.
C21_Witness ==
    /\ took = "disconnect.deleted"
    /\ \E c \in Conns, b \in Conns :
          /\ sock[c].pc = "done"
          /\ sock[c].session \in Accounts
          /\ ~Known(onlineUsers, c)
          /\ b # c
          /\ Lookup(onlineUsers, b)._id = ObjectId(sock[c].session)
          /\ db[sock[c].session].socketId = NoSocket
    /\ \E g \in Conns : Lookup(onlineUsers, g).isGuest

\* The lobby in which storage answers every call a handshake awaits; no client
\* ever has to send anything.
FairSpec ==
    /\ Spec
    /\ WF_vars(\E c \in Conns : LookupDone(c))
    /\ WF_vars(\E c \in Conns : MarkerDone(c))

\* An inviteReceived from the identity with id text s is among the
\* notifications of the last handler run, addressed to connection c.
InviteDelivered(s, c) ==
    \E i \in 1..Len(emitted) :
        /\ emitted[i].ev = "inviteReceived"
        /\ emitted[i].to = c
        /\ emitted[i].data.fromId = s

\* C22 (as claimed): a game between sender S (player1) and accepter A (player2)
\* is in the pending table only in behaviours in which an inviteReceived from S is
\* delivered to A's connection; a game enters the table only in a run that emits
\* showDifficultySelect for its gameId, and gameStart is emitted only for a game
\* of the table.
C22_InviteBeforeGameBeforeStart ==
    /\ \A s \in Accounts, c \in Conns :
          \/ [](\A i \in 1..Len(pendingGames) :
                   ~(/\ pendingGames[i].player1.id = ObjectId(s)
                     /\ pendingGames[i].player2.socketId = c))
          \/ <>InviteDelivered(HexStr(s), c)
    /\ [][\A g \in GameIds(pendingGames') \ GameIds(pendingGames) :
             \E i \in 1..Len(emitted') :
                 emitted'[i].ev = "showDifficultySelect" /\ emitted'[i].data.gameId = g]_vars
    /\ [][\A i \in 1..Len(emitted') :
             emitted'[i].ev = "gameStart" =>
                 emitted'[i].data.gameId \in GameIds(pendingGames)]_vars

\* One game at a time between the two accounts' connections, under every
\* interleaving with the handlers that are suspended on storage: a handshake may
\* be answered, and a rename stored, before or after any accept or difficulty
\* message.
NextChoices ==
    \/ \E c \in Accounts : Connect(c, c)
    \/ \E c \in Conns : LookupDone(c)
    \/ \E c \in Conns : MarkerDone(c)
    \/ renames = {} /\ \E c \in Conns : SetUsername(c, "Zed")
    \/ \E r \in renames : RenameDone(r)
    \/ /\ pendingGames = <<>>
       /\ \E c \in Conns, senderId \in UserIdInputs : AcceptInvite(c, senderId)
    \/ \E c \in Conns, gameId \in GameIdInputs, difficulty \in Difficulties :
          DifficultySelected(c, gameId, difficulty)

SpecChoices == Init /\ [][NextChoices]_vars

\* C23: a difficultySelected of a participant of a pending game sets that
\* participant's slot to the difficulty sent and keeps the other slot's choice, as
\* reported to both and as held by the table if the game stays pending; a game
\* whose two slots then hold a choice is started with both; and no step of any
\* other handler, suspended ones included, changes a choice of a pending game.
C23_BothSubmissionsRecorded ==
    /\ [][took' = "difficultySelected.both" =>
          \A c \in Conns, gameId \in GameIdInputs, difficulty \in Difficulties :
           ( /\ Pending(pendingGames, gameId) /\ Known(onlineUsers, c)
             /\ DifficultySelected(c, gameId, difficulty)
             /\ ToStr(Lookup(onlineUsers, c)._id) \in
                   {ToStr(GameOf(pendingGames, gameId).player1.id),
                    ToStr(GameOf(pendingGames, gameId).player2.id)} ) =>
               LET before == GameOf(pendingGames, gameId)
                   first == IsPlayer1(before, Lookup(onlineUsers, c))
                   d1 == IF first THEN difficulty ELSE before.player1.difficulty
                   d2 == IF first THEN before.player2.difficulty ELSE difficulty
                   start == SelectSeq(emitted', LAMBDA e : e.ev = "gameStart")
               IN  /\ emitted'[1].data.myChoice = d1
                   /\ emitted'[2].data.myChoice = d2
                   /\ Pending(pendingGames', gameId) =>
                         /\ GameOf(pendingGames', gameId).player1.difficulty = d1
                         /\ GameOf(pendingGames', gameId).player2.difficulty = d2
                   /\ (Truthy(d1) /\ Truthy(d2)) =>
                         /\ Len(start) = 2
                         /\ start[1].data.difficulty = d1
                         /\ start[2].data.difficulty = d2
      ]_vars
    /\ [][took' # "difficultySelected.both" =>
          \A i \in 1..Len(pendingGames) :
              /\ i <= Len(pendingGames')
              /\ pendingGames'[i].player1.difficulty = pendingGames[i].player1.difficulty
              /\ pendingGames'[i].player2.difficulty = pendingGames[i].player2.difficulty
      ]_vars

\* C23 witness: the second participant's choice has just started a game with two
\* different choices, player1's made earlier, while a rename was suspended on
\* storage.
C23_Witness ==
    /\ took = "difficultySelected.both"
    /\ Len(emitted) = 4
    /\ emitted[3].to # emitted[4].to
    /\ emitted[3].data.difficulty = "easy"
    /\ emitted[4].data.difficulty = "hard"
    /\ renames # {}

\* The pending table among all handlers: the two accounts and a connection
\* without a session; once a game is pending, connections close, ask for guest
\* identities, rename, invite and report scores and results.  Storage answers a
\* handshake, a disconnect or a rename before the next client event, and a
\* behaviour stores renames or game results, not both.
NextTable ==
    \/ /\ ~Busy
       /\ \/ \E c \in Conns : Connect(c, IF c \in Accounts THEN c ELSE NoSession)
          \/ \E c \in Conns, senderId \in UserIdInputs : AcceptInvite(c, senderId)
          \/ \E c \in Conns, gameId \in GameIdInputs :
                DifficultySelected(c, gameId, "easy")
          \/ /\ pendingGames # <<>>
             /\ \/ \E c \in Conns : Lookup(onlineUsers, c) = NoUser /\ GuestLogin(c)
                \/ \E c \in Conns : Disconnect(c)
                \/ NoScores /\ \E c \in Conns : SetUsername(c, "Zed")
                \/ \E c \in Conns : SendInvite(c, HexStr(1))
                \/ \E c \in Conns : ScoreUpdate(c, 1)
                \/ NoRenames /\ \E c \in Conns : GameOver(c, 1, "single", "undefined")
    \/ \E c \in Conns : LookupDone(c)
    \/ \E c \in Conns : MarkerDone(c)
    \/ \E c \in Conns : UnsetDone(c)
    \/ \E r \in renames : RenameDone(r)

SpecTable == Init /\ [][NextTable]_vars

\* C24: a game leaves the pending table only in a run of difficultySelected that
\* emits gameStart for it with two choices; every step of any other handler
\* (connection, disconnect, setUsername, guestLogin, sendInvite, acceptInvite,
\* scoreUpdate, gameOver), and every difficultySelected that is dropped, keeps
\* every game of the table as it is.
C24_OnlyCompletionRemovesGame ==
    /\ [][\A g \in GameIds(pendingGames) \ GameIds(pendingGames') :
             LET start == SelectSeq(emitted', LAMBDA e :
                              e.ev = "gameStart" /\ e.data.gameId = g)
             IN  /\ took' = "difficultySelected.both"
                 /\ Len(start) = 2
                 /\ Truthy(start[1].data.difficulty)
                 /\ Truthy(start[2].data.difficulty)]_vars
    /\ [][took' # "difficultySelected.both" =>
             \A g \in GameIds(pendingGames) :
                 /\ g \in GameIds(pendingGames')
                 /\ GameOf(pendingGames', g) = GameOf(pendingGames, g)]_vars

\* C24 witness: player1 of a pending game that holds one choice has disconnected,
\* and the game is still in the table with that choice.
C24_Witness ==
    /\ took = "disconnect.deleted"
    /\ \E i \in 1..Len(pendingGames) :
          /\ ~Known(onlineUsers, pendingGames[i].player1.socketId)
          /\ pendingGames[i].player1.difficulty = "easy"
          /\ pendingGames[i].player2.difficulty = null
          /\ pendingGames[i].player2.id # pendingGames[i].player1.id

\* Reconnects: the two accounts' connections and a later connection of account
\* 1; connections close at any time, also while a game they are in is pending;
\* one game at a time.  Handshakes and disconnects are answered by storage in
\* any order with the client events.
NextReconnect ==
    \/ \E c \in Conns : Connect(c, IF c \in Accounts THEN c ELSE 1)
    \/ \E c \in Conns : LookupDone(c)
    \/ \E c \in Conns : MarkerDone(c)
    \/ \E c \in Conns : Disconnect(c)
    \/ \E c \in Conns : UnsetDone(c)
    \/ /\ pendingGames = <<>>
       /\ \E c \in Conns, senderId \in UserIdInputs : AcceptInvite(c, senderId)
    \/ \E c \in Conns, gameId \in GameIdInputs, difficulty \in Difficulties :
          DifficultySelected(c, gameId, difficulty)

SpecReconnect == Init /\ [][NextReconnect]_vars

\* C25: a difficultySelected for a pending game, sent from a connection that is
\* not the one recorded in the slot of the sender's account, sets the difficulty
\* of the slot that holds the sender's account id and leaves the other slot's
\* difficulty as it was.
C25_ReconnectedChoosesOwnSlot ==
    [][took' = "difficultySelected.both" =>
       \A c \in Conns, gameId \in GameIdInputs, difficulty \in Difficulties :
        LET before == GameOf(pendingGames, gameId)
            player == Lookup(onlineUsers, c)
            after == IF Pending(pendingGames', gameId)
                     THEN GameOf(pendingGames', gameId)
                     ELSE [before EXCEPT
                              !.player1.difficulty = emitted'[3].data.difficulty,
                              !.player2.difficulty = emitted'[4].data.difficulty]
        IN  ( /\ Pending(pendingGames, gameId) /\ Known(onlineUsers, c)
              /\ DifficultySelected(c, gameId, difficulty) ) =>
              /\ (player._id = before.player1.id /\ c # before.player1.socketId) =>
                    /\ after.player1.difficulty = difficulty
                    /\ player._id # before.player2.id =>
                          after.player2.difficulty = before.player2.difficulty
              /\ (player._id = before.player2.id /\ c # before.player2.socketId) =>
                    /\ player._id # before.player1.id =>
                          /\ after.player2.difficulty = difficulty
                          /\ after.player1.difficulty = before.player1.difficulty
    ]_vars

\* C25 witness: player1's connection of the only pending game is gone, and a
\* difficulty sent from another connection of player1's account has just been
\* recorded in player1's slot, the opponent's being empty.
C25_Witness ==
    /\ took = "difficultySelected.both"
    /\ Len(pendingGames) = 1
    /\ Len(emitted) = 2
    /\ ~Known(onlineUsers, pendingGames[1].player1.socketId)
    /\ pendingGames[1].player1.id # pendingGames[1].player2.id
    /\ pendingGames[1].player1.difficulty = "hard"
    /\ pendingGames[1].player2.difficulty = null

\* The account ids in use or handed out so far: those of the stored accounts, of
\* the registry's records, of the identity each connection registered last, and
\* of every guest created.
IdsBefore ==
    {ObjectId(a) : a \in Accounts}
    \cup {onlineUsers[i]._id : i \in 1..Len(onlineUsers)}
    \cup {registered[c] : c \in Conns}
    \cup {GuestStr(n) : n \in (NumAccounts + 1)..(nextOid - 1)}

\* C26: a guestLogin puts under the sending connection's id a record with
\* isGuest = TRUE whose _id is none of the ids in use or handed out before, emits
\* one loginSuccess, to that connection, carrying that identity, leaves the other
\* connections' records alone and writes nothing to storage.
C26_GuestLoginRegistersFreshGuest ==
    [][took' = "guestLogin" =>
         \E c \in Conns :
             LET rec == Lookup(onlineUsers', c)
             IN  /\ GuestLogin(c)
                 /\ rec.socketId = c
                 /\ rec.isGuest
                 /\ rec._id \notin IdsBefore
                 /\ \A k \in 1..Len(onlineUsers') :
                       onlineUsers'[k]._id = rec._id => onlineUsers'[k].socketId = c
                 /\ Len(emitted') = 1
                 /\ emitted'[1].to = c
                 /\ emitted'[1].ev = "loginSuccess"
                 /\ emitted'[1].data._id = rec._id
                 /\ emitted'[1].data.isGuest
                 /\ \A o \in Conns \ {c} : Lookup(onlineUsers', o) = Lookup(onlineUsers, o)
                 /\ db' = db
                 /\ written' = written
                 /\ UNCHANGED store
    ]_vars

\* C26 witness: a second guest has just been registered, on a connection that had
\* an account's record, next to the first guest's and with another id.
C26_Witness ==
    /\ took = "guestLogin"
    /\ \E c \in Conns, o \in Conns :
          /\ c # o
          /\ emitted[1].to = c
          /\ sock[c].session \in Accounts
          /\ Lookup(onlineUsers, c).isGuest
          /\ Lookup(onlineUsers, o).isGuest
          /\ Lookup(onlineUsers, o)._id # Lookup(onlineUsers, c)._id

\* The account id is in a slot of no game of the table.
InNoGame(games, id) ==
    \A i \in 1..Len(games) : games[i].player1.id # id /\ games[i].player2.id # id

\* C27 (as claimed): a scoreUpdate from a connection whose record's id is in a
\* slot of no pending game raises no error, emits nothing and changes nothing,
\* whatever ids the slots of the pending games hold and whether or not the
\* reporter is a guest.
C27_ScoreOfNonMemberIsDropped ==
    [][took' = "scoreUpdate" =>
         \A c \in Conns, score \in ScoreInputs :
             ( /\ Known(onlineUsers, c)
               /\ InNoGame(pendingGames, Lookup(onlineUsers, c)._id)
               /\ ScoreUpdate(c, score) ) =>
                   /\ ScanGames(pendingGames, Lookup(onlineUsers, c)._id, 1) # Threw
                   /\ emitted' = <<>>
                   /\ UNCHANGED <<sock, db, onlineUsers, pendingGames, renames, store>>
    ]_vars

\* C28 (as claimed): a difficultySelected for a pending game from a registered
\* connection whose account id is in neither slot of the game leaves the game in
\* the table with both difficulties as they were and emits no gameStart.
C28_OnlyParticipantsChoose ==
    [][took' = "difficultySelected.both" =>
         \A c \in Conns, gameId \in GameIdInputs, difficulty \in Difficulties :
             LET before == GameOf(pendingGames, gameId)
                 player == Lookup(onlineUsers, c)
             IN  ( /\ Pending(pendingGames, gameId) /\ Known(onlineUsers, c)
                   /\ ToStr(player._id) # ToStr(before.player1.id)
                   /\ ToStr(player._id) # ToStr(before.player2.id)
                   /\ DifficultySelected(c, gameId, difficulty) ) =>
                       /\ Pending(pendingGames', gameId)
                       /\ GameOf(pendingGames', gameId).player1.difficulty =
                             before.player1.difficulty
                       /\ GameOf(pendingGames', gameId).player2.difficulty =
                             before.player2.difficulty
                       /\ \A i \in 1..Len(emitted') : emitted'[i].ev # "gameStart"
    ]_vars

\* C29 (as claimed): the two slots of every game of the pending table hold two
\* different account ids and two different connection ids.
C29_SlotsHoldTwoParticipants ==
    \A i \in 1..Len(pendingGames) :
        /\ pendingGames[i].player1.id # pendingGames[i].player2.id
        /\ pendingGames[i].player1.socketId # pendingGames[i].player2.socketId

\* A connection without a record among registered ones: the two accounts'
\* connections create games and choose, and a connection without a session sends
\* every message, naming the users online and the games pending, before it asks
\* (if ever) for a guest identity.  Storage answers a handshake before the next
\* client event; a leaderboard query may be answered later.
NextStranger ==
    \/ /\ ~Busy
       /\ \/ \E c \in Conns : Connect(c, IF c \in Accounts THEN c ELSE NoSession)
          \/ \E c \in Conns, senderId \in UserIdInputs : AcceptInvite(c, senderId)
          \/ \E c \in Conns, gameId \in GameIdInputs :
                DifficultySelected(c, gameId, "easy")
          \/ \E c \in Conns :
                /\ Lookup(onlineUsers, c) = NoUser
                /\ \/ GuestLogin(c)
                   \/ GetLeaderboards(c)
                   \/ SetUsername(c, "Zed")
                   \/ RequestInitialData(c)
                   \/ \E friendId \in UserIdInputs : AddFriend(c, friendId)
                   \/ \E toUserId \in UserIdInputs : SendInvite(c, toUserId)
                   \/ \E score \in ScoreInputs : ScoreUpdate(c, score)
                   \/ \E p \in GameOverInputs : GameOver(c, p.score, p.mode, p.won)
    \/ \E c \in Conns : LookupDone(c)
    \/ \E c \in Conns : MarkerDone(c)
    \/ \E call \in calls : LeaderboardsDone(call)

SpecStranger == Init /\ [][NextStranger]_vars

\* C30: a setUsername, requestInitialData, addFriend, sendInvite, acceptInvite,
\* difficultySelected, scoreUpdate or gameOver from a connection that has no
\* record in the registry emits nothing and changes neither the registry, the
\* pending table, the suspended handlers nor anything stored.
C30_NoRecordNoEffect ==
    [][\A c \in Conns :
          ( /\ Listening(c)
            /\ ~Known(onlineUsers, c)
            /\ \/ SetUsername(c, "Zed")
               \/ RequestInitialData(c)
               \/ \E friendId \in UserIdInputs : AddFriend(c, friendId)
               \/ \E toUserId \in UserIdInputs : SendInvite(c, toUserId)
               \/ \E senderId \in UserIdInputs : AcceptInvite(c, senderId)
               \/ \E gameId \in GameIdInputs : DifficultySelected(c, gameId, "easy")
               \/ \E score \in ScoreInputs : ScoreUpdate(c, score)
               \/ \E p \in GameOverInputs : GameOver(c, p.score, p.mode, p.won) )
          => /\ emitted' = <<>>
             /\ UNCHANGED <<sock, db, onlineUsers, pendingGames, nextOid, renames,
                            registered, written>>
             /\ UNCHANGED store
    ]_vars

\* C30 witness: with two accounts online and a game pending between them that
\* holds one choice, a connection without a record has just named that game's
\* player1 in an acceptInvite.
C30_Witness ==
    /\ took = "acceptInvite.noAccepter"
    /\ emitted = <<>>
    /\ Len(onlineUsers) = 2
    /\ \E c \in Conns : Listening(c) /\ ~Known(onlineUsers, c)
    /\ \E i \in 1..Len(pendingGames) :
          /\ pendingGames[i].player1.difficulty = "easy"
          /\ pendingGames[i].player1.id # pendingGames[i].player2.id

\* The positions of emitted at which gameStart for game g goes to connection c.
StartsTo(out, g, c) ==
    {i \in 1..Len(out) :
        out[i].ev = "gameStart" /\ out[i].data.gameId = g /\ out[i].to = c}

\* C31 (as claimed): a run that emits gameStart for a game emits it for a game of
\* the pending table whose two slots then hold a choice, once to player1's
\* connection and once to player2's and to nobody else, and takes the game out of
\* the table; a game enters the table only under an id never generated before, so
\* no later run can emit gameStart for it again.
C31_GameStartOncePerSide ==
    /\ [][\A g \in GameIdInputs :
             (\E i \in 1..Len(emitted') :
                 emitted'[i].ev = "gameStart" /\ emitted'[i].data.gameId = g) =>
             LET before == GameOf(pendingGames, g)
                 all == {i \in 1..Len(emitted') :
                            emitted'[i].ev = "gameStart" /\ emitted'[i].data.gameId = g}
             IN  /\ Pending(pendingGames, g)
                 /\ ~Pending(pendingGames', g)
                 /\ Cardinality(StartsTo(emitted', g, before.player1.socketId)) = 1
                 /\ Cardinality(StartsTo(emitted', g, before.player2.socketId)) = 1
                 /\ all = StartsTo(emitted', g, before.player1.socketId) \cup
                          StartsTo(emitted', g, before.player2.socketId)
                 /\ \A i \in all : Truthy(emitted'[i].data.difficulty)]_vars
    /\ [][\A g \in GameIds(pendingGames') \ GameIds(pendingGames) :
             g = HexStr(nextOid) /\ nextOid' > nextOid]_vars

\* The registry holds under connection id c a record of the account in slot.
RegisteredFor(users, c, slot) == Known(users, c) /\ Lookup(users, c)._id = slot.id

\* C32 (as claimed): the showDifficultySelect of an accept, and the
\* updateDifficultyChoices and gameStart of a difficultySelected, go to connection
\* ids under which the registry, at that moment, holds a record of the account of
\* the slot notified: the first of each pair for player1, the second for player2.
C32_NotifiedConnectionIsRegistered ==
    /\ [][took' = "acceptInvite.both" =>
             \A g \in GameIds(pendingGames') \ GameIds(pendingGames) :
                 LET game == GameOf(pendingGames', g)
                 IN  /\ RegisteredFor(onlineUsers, emitted'[1].to, game.player1)
                     /\ RegisteredFor(onlineUsers, emitted'[2].to, game.player2)]_vars
    /\ [][took' = "difficultySelected.both" =>
             \A c \in Conns, gameId \in GameIdInputs, difficulty \in Difficulties :
                 ( /\ Pending(pendingGames, gameId) /\ Known(onlineUsers, c)
                   /\ DifficultySelected(c, gameId, difficulty) ) =>
                     LET before == GameOf(pendingGames, gameId)
                     IN  \A i \in 1..Len(emitted') :
                             RegisteredFor(onlineUsers, emitted'[i].to,
                                 IF i % 2 = 1 THEN before.player1 ELSE before.player2)
       ]_vars

\* C33 (as claimed): once a connection is closed and none of its handlers is
\* suspended on storage any more (its handshake and its disconnect have run to
\* their ends), the registry holds no record under its connection id.
C33_ClosedConnectionLeavesNoRecord ==
    \A c \in Conns :
        (~sock[c].open /\ sock[c].pc \in {"ready", "done"}) => ~Known(onlineUsers, c)

\* C34 (as claimed): when no handler is suspended on storage, the stored socketId
\* marker of every account is set exactly if the registry holds a record with the
\* account's id, and is then the connection id of such a record.
C34_MarkerMatchesRegistry ==
    (~Busy /\ calls = {}) =>
        \A a \in Accounts :
            LET own == SocketsOf(onlineUsers, ObjectId(a))
            IN  /\ db[a].socketId # NoSocket <=> own # {}
                /\ db[a].socketId # NoSocket => db[a].socketId \in own

\* ------------------------------------------------- client.js: the dialogue
\* Everything but the client: what a step of the browser leaves alone (its
\* messages are in client.sent; their handling is the server's actions).
server == <<sock, db, onlineUsers, pendingGames, nextOid, renames, emitted, took,
            registered, ownChoice, scn, scores, wins, friendships, calls, wonReports,
            written>>

\* data-difficulty of the .difficulty-btn buttons
ClientDifficulties == {"easy", "medium", "hard"}

\* The gameIds a notification of the server can carry.
ClientGameIds == {HexStr(n) : n \in (NumAccounts + 1)..(NumAccounts + MaxObjectIds)}

\* The click handler of a .difficulty-btn: in mode 'single' hide the modal,
\* setDifficulty and beginGameCountdown; otherwise emit difficultySelected.
DifficultyChosen(cl, difficulty) ==
    IF cl.mode = "single"
    THEN [cl EXCEPT !.modal = FALSE, !.difficulty = difficulty, !.began = "single",
                    !.running = TRUE, !.sent = <<>>, !.asked = NoId]
    ELSE [cl EXCEPT !.began = "", !.asked = NoId,
                    !.sent = <<[ev |-> "difficultySelected",
                                data |-> [gameId |-> cl.gameId,
                                          difficulty |-> difficulty]]>>]

\* socket.on('showDifficultySelect'): store the gameId and show the modal.
OnShowDifficultySelect(gameId) ==
    /\ client' = [client EXCEPT !.gameId = gameId, !.modal = TRUE, !.asked = gameId,
                                !.sent = <<>>, !.began = ""]
    /\ UNCHANGED server

\* socket.on('gameStart'): hide the modal and startMultiplayerGame.
OnGameStart(gameId, difficulty) ==
    /\ client' = [client EXCEPT !.modal = FALSE, !.mode = "multi", !.gameId = gameId,
                                !.difficulty = difficulty, !.began = "multi",
                                !.running = TRUE, !.sent = <<>>, !.asked = NoId]
    /\ UNCHANGED server

\* A click on a difficulty button, which the open modal shows.
DifficultyBtn(difficulty) ==
    /\ client.modal
    /\ client' = DifficultyChosen(client, difficulty)
    /\ UNCHANGED server

\* A click on single-player-btn: mode 'single', and the modal is shown.
SinglePlayerBtn ==
    /\ client' = [client EXCEPT !.mode = "single", !.modal = TRUE, !.asked = NoId,
                                !.sent = <<>>, !.began = ""]
    /\ UNCHANGED server

\* A click on multiplayer-btn: the lobby is shown and its data requested.
MultiplayerBtn ==
    /\ client' = [client EXCEPT !.began = "",
                     !.sent = <<[ev |-> "getLeaderboards", data |-> NoId],
                                [ev |-> "requestInitialData", data |-> NoId]>>]
    /\ UNCHANGED server

\* gameLoop when the bird has crashed: the result is reported under the mode
\* and gameId of currentGameState, and the loop stops.
RoundOver ==
    /\ client.running
    /\ client' = [client EXCEPT !.running = FALSE, !.began = "",
                     !.sent = <<[ev |-> "gameOver",
                                 data |-> [mode |-> client.mode,
                                           gameId |-> client.gameId]]>>]
    /\ UNCHANGED server

\* One browser: the user clicks, rounds end, and the server's notifications
\* arrive, in any order.
NextClient ==
    \/ \E gameId \in ClientGameIds : OnShowDifficultySelect(gameId)
    \/ \E gameId \in ClientGameIds, difficulty \in ClientDifficulties :
          OnGameStart(gameId, difficulty)
    \/ \E difficulty \in ClientDifficulties : DifficultyBtn(difficulty)
    \/ SinglePlayerBtn
    \/ MultiplayerBtn
    \/ RoundOver

SpecClient == Init /\ [][NextClient]_vars

\* C35 (as claimed): when the client has received showDifficultySelect{gameId}
\* and the next thing the user clicks in the dialogue is a difficulty button, the
\* client sends difficultySelected with that gameId and the difficulty clicked,
\* and begins no single-player round.
C35_ClickAnswersTheServer ==
    [][\A difficulty \in ClientDifficulties :
          (client.asked # NoId /\ DifficultyBtn(difficulty)) =>
              /\ client'.sent = <<[ev |-> "difficultySelected",
                                   data |-> [gameId |-> client.asked,
                                             difficulty |-> difficulty]]>>
              /\ client'.began # "single"
    ]_vars

====
